---- MODULE Spec2Model ----
(***************************************************************************)
(* Cellular-automaton stepping engine (src/src/lib/automata.ts) and the    *)
(* callers that drive it.  Arrays are JavaScript objects: they live on a   *)
(* heap and are held by reference, so that writing into an array is        *)
(* visible through every reference to it.                                  *)
(***************************************************************************)
EXTENDS Integers, Sequences, FiniteSets, TLC

(***************************************************************************)
(* Bounds of the model.                                                    *)
(***************************************************************************)
MaxRows == 3
MaxCols == 3
MaxSize == 4
\* Initial 2D grids: every grid of at most MaxCells cells, and every larger
\* grid with at most MaxLive live cells.
MaxCells == 9
MaxLive == 1
\* The torus the glider runs on, and how many generations it is run for.
GliderRows == 6
GliderCols == 7
MaxGenerations == 8
\* Cell states are the integer codes 0..MaxCellState.
MaxCellState == 2
\* Wolfram codes tried: CodeMargin below 0 up to CodeMargin above 255.
CodeMargin == 2
\* Rule strings tried: every string of at most MaxStrLen characters.
MaxStrLen == 4
\* Forests stepped: every grid of fire states with at most ForestCells cells.
ForestCells == 4
\* Crystals grown: every grid of at most CrystalCells cells, with every
\* threshold in 0..MaxThreshold.
CrystalCells == 6
MaxThreshold == 3
\* Grids stepped again from a kept generation: at most ReplayCells cells, at
\* most MaxCalls calls of nextGeneration.
ReplayCells == 6
MaxCalls == 4
\* Fires followed for at most MaxFireSteps steps.
MaxFireSteps == 6
\* Seeded crystals: grids of up to SeedRows x SeedCols cells.
SeedRows == 5
SeedCols == 5
\* The B/S simulator: grids of up to DriverCells cells, up to MaxTicks steps.
DriverCells == 2
MaxTicks == 3
\* The animated elementary simulator: up to MaxAnimation generations.
MaxAnimation == 4

VARIABLES
  heap,       \* the arrays that exist: reference -> array contents
  grid,       \* the 2D grid the caller holds (a reference), or NULL
  row,        \* the 1D grid the caller holds (a reference), or NULL
  rule,       \* the rule function the caller steps with
  kept,       \* a reference the caller kept to an earlier generation, or NULL
  keptSnap,   \* what the kept generation contained when it was kept
  inputRefs,  \* the arrays the argument of the latest stepping call consisted of
  inputSnap,  \* what that argument contained when the call was made
  inputAfter, \* what that argument contained when the call returned
  ruleCalls,  \* the arguments of the rule calls the latest stepping call made
  called,     \* the latest engine call
  generation, \* the generation counter of the simulator component
  keptResults, \* what each nextGeneration call on the kept generation returned
  args,       \* the arguments a rule or rule constructor is called with
  returned,   \* what the latest rule or rule-constructor call returned
  applied,    \* what the constructed rule returned when it was applied
  component   \* the simulator component's other state values and timer, or NULL

vars == <<heap, grid, row, rule, kept, keptSnap, inputRefs, inputSnap,
          inputAfter, ruleCalls, called, generation, keptResults, args, returned,
          applied, component>>

gridVars == <<heap, grid, row, rule, kept, keptSnap, inputRefs, inputSnap,
              inputAfter, ruleCalls, generation, keptResults, component>>

NULL == 0

(***************************************************************************)
(* Heap.  A reference is a positive integer; heap[r] is the array r names. *)
(* A row holds cell states, a 2D grid holds references to its rows.        *)
(***************************************************************************)
\* The n smallest references not in use, in increasing order.
FreeRefs(h, n) ==
  LET free == (1..(Cardinality(DOMAIN h) + n)) \ DOMAIN h
  IN  [k \in 1..n |-> CHOOSE r \in free : Cardinality({q \in free : q < r}) = k - 1]

\* The cell states of the 2D grid g, row by row.
Deref2D(h, g) == [i \in 1..Len(h[g]) |-> h[h[g][i]]]

\* The references reachable from a 2D grid reference: itself and its rows.
Reach2D(h, g) == IF g = NULL THEN {} ELSE {g} \cup {h[g][i] : i \in 1..Len(h[g])}

Reach1D(r) == IF r = NULL THEN {} ELSE {r}

\* Garbage collection: arrays no reference leads to cease to exist.
Collect(h, roots) == [r \in (DOMAIN h) \cap roots |-> h[r]]

(***************************************************************************)
(* Grid Model                                                              *)
(***************************************************************************)
Positions(rows, cols) == (0..(rows - 1)) \X (0..(cols - 1))

\* An initializer is a function of the cell position (0-based).
createGrid(h, rows, cols, initializer) ==
  LET refs == FreeRefs(h, rows + 1)
      withRows == [r \in {refs[i + 2] : i \in 0..(rows - 1)} |->
                     LET i == CHOOSE n \in 0..(rows - 1) : refs[n + 2] = r
                     IN  [j \in 1..cols |-> initializer[<<i, j - 1>>]]]
  IN  [heap |-> (refs[1] :> [i \in 1..rows |-> refs[i + 1]]) @@ withRows @@ h,
       ref  |-> refs[1]]

createOneDGrid(h, size, initializer) ==
  LET g == FreeRefs(h, 1)[1]
  IN  [heap |-> (g :> [i \in 1..size |-> initializer[i - 1]]) @@ h,
       ref  |-> g]

(***************************************************************************)
(* Rule Catalog: the fixed 2D rules                                        *)
(***************************************************************************)
RECURSIVE reduce(_, _, _)
\* Array.prototype.reduce for the callbacks (sum, state) => sum + f(state),
\* where weight is f as a function of the state.
reduce(arr, weight, sum) ==
  IF arr = <<>> THEN sum
  ELSE reduce(Tail(arr), weight, sum + weight[Head(arr)])

StatesOf(arr) == {arr[n] : n \in DOMAIN arr}

conwayRule(neighbors, currentState) ==
  LET liveNeighbors == reduce(neighbors, [s \in StatesOf(neighbors) |-> s], 0)
  IN  IF currentState = 1
      THEN (IF liveNeighbors = 2 \/ liveNeighbors = 3 THEN 1 ELSE 0)
      ELSE (IF liveNeighbors = 3 THEN 1 ELSE 0)

seedsRule(neighbors, currentState) ==
  LET liveNeighbors == reduce(neighbors, [s \in StatesOf(neighbors) |-> s], 0)
  IN  IF currentState = 0
      THEN (IF liveNeighbors = 2 THEN 1 ELSE 0)
      ELSE 0

\* Faulty variant: the birth on 6 neighbors left out.
highLifeRuleBirth3Only(neighbors, currentState) ==
  LET liveNeighbors == reduce(neighbors, [s \in StatesOf(neighbors) |-> s], 0)
  IN  IF currentState = 1
      THEN (IF liveNeighbors = 2 \/ liveNeighbors = 3 THEN 1 ELSE 0)
      ELSE (IF liveNeighbors = 3 THEN 1 ELSE 0)

highLifeRule(neighbors, currentState) ==
  LET liveNeighbors == reduce(neighbors, [s \in StatesOf(neighbors) |-> s], 0)
  IN  IF currentState = 1
      THEN (IF liveNeighbors = 2 \/ liveNeighbors = 3 THEN 1 ELSE 0)
      ELSE (IF liveNeighbors = 3 \/ liveNeighbors = 6 THEN 1 ELSE 0)

\* Faulty variant: every neighbor in a state other than 0 counts as live.
parsedRuleCountsNonZero(birthSet, survivalSet, neighbors, currentState) ==
  LET liveNeighbors ==
        reduce(neighbors, [s \in StatesOf(neighbors) |-> IF s # 0 THEN 1 ELSE 0], 0)
  IN  IF currentState = 1
      THEN (IF liveNeighbors \in survivalSet THEN 1 ELSE 0)
      ELSE (IF liveNeighbors \in birthSet THEN 1 ELSE 0)

\* The rule function parseBSRule returns, closed over its two sets.
parsedRule(birthSet, survivalSet, neighbors, currentState) ==
  LET liveNeighbors ==
        reduce(neighbors, [s \in StatesOf(neighbors) |-> IF s = 1 THEN 1 ELSE 0], 0)
  IN  IF currentState = 1
      THEN (IF liveNeighbors \in survivalSet THEN 1 ELSE 0)
      ELSE (IF liveNeighbors \in birthSet THEN 1 ELSE 0)

(***************************************************************************)
(* The rule catalog of the custom rule simulator: each entry's rule as its *)
(* arrow function computes it.                                             *)
(***************************************************************************)
\* neighbors.filter(n => n === 1).length
aliveNeighbors(neighbors) == Cardinality({n \in DOMAIN neighbors : neighbors[n] = 1})

catalogDayAndNight(neighbors, current) ==
  LET survival == aliveNeighbors(neighbors) \in {3, 4, 6, 7, 8}
      birth    == aliveNeighbors(neighbors) \in {3, 6, 7, 8}
  IN  IF current = 1 THEN (IF survival THEN 1 ELSE 0) ELSE (IF birth THEN 1 ELSE 0)

catalogMaze(neighbors, current) ==
  IF current = 1
  THEN (IF aliveNeighbors(neighbors) >= 1 /\ aliveNeighbors(neighbors) <= 5 THEN 1 ELSE 0)
  ELSE (IF aliveNeighbors(neighbors) = 3 THEN 1 ELSE 0)

catalogReplicator(neighbors, current) ==
  LET survival == aliveNeighbors(neighbors) \in {1, 3, 5, 7}
      birth    == aliveNeighbors(neighbors) \in {1, 3, 5, 7}
  IN  IF current = 1 THEN (IF survival THEN 1 ELSE 0) ELSE (IF birth THEN 1 ELSE 0)

catalogSeeds(neighbors, current) ==
  IF aliveNeighbors(neighbors) = 2 THEN 1 ELSE 0

catalogDiamoeba(neighbors, current) ==
  IF current = 1
  THEN (IF aliveNeighbors(neighbors) >= 5 /\ aliveNeighbors(neighbors) <= 8 THEN 1 ELSE 0)
  ELSE (IF aliveNeighbors(neighbors) >= 3 /\ aliveNeighbors(neighbors) <= 8 THEN 1 ELSE 0)

catalog2x2(neighbors, current) ==
  IF current = 1
  THEN (IF aliveNeighbors(neighbors) \in {1, 2, 5} THEN 1 ELSE 0)
  ELSE (IF aliveNeighbors(neighbors) \in {3, 6} THEN 1 ELSE 0)

\* Faulty variant: no birth on 8 live neighbors.
catalogMoveBirth36(neighbors, current) ==
  IF current = 1
  THEN (IF aliveNeighbors(neighbors) \in {2, 4, 5} THEN 1 ELSE 0)
  ELSE (IF aliveNeighbors(neighbors) \in {3, 6} THEN 1 ELSE 0)

catalogMove(neighbors, current) ==
  IF current = 1
  THEN (IF aliveNeighbors(neighbors) \in {2, 4, 5} THEN 1 ELSE 0)
  ELSE (IF aliveNeighbors(neighbors) \in {3, 6, 8} THEN 1 ELSE 0)

catalogServiettes(neighbors, current) ==
  IF aliveNeighbors(neighbors) = 2 THEN 1 ELSE 0

\* rules.find(r => r.name === name).rule
CatalogRule(name, neighbors, current) ==
  CASE name = "Day & Night" -> catalogDayAndNight(neighbors, current)
    [] name = "Maze"        -> catalogMaze(neighbors, current)
    [] name = "Replicator"  -> catalogReplicator(neighbors, current)
    [] name = "Seeds"       -> catalogSeeds(neighbors, current)
    [] name = "Diamoeba"    -> catalogDiamoeba(neighbors, current)
    [] name = "2x2"         -> catalog2x2(neighbors, current)
    [] name = "Move"        -> catalogMove(neighbors, current)
    [] name = "Serviettes"  -> catalogServiettes(neighbors, current)

(***************************************************************************)
(* Extended multi-state rules.  A probability is written in hundredths, as *)
(* the simulator's slider gives it (value / 100), and a value Math.random  *)
(* returns as the hundredth it falls in, floor(100 * u) in 0..99; then     *)
(* u < p / 100 exactly when floor(100 * u) < p.  Math.random is a stream   *)
(* of values to come; a call that draws takes the first.                   *)
(***************************************************************************)
FIRE_STATES == [EMPTY |-> 0, TREE |-> 1, BURNING |-> 2, BURNT |-> 3]

\* Faulty variant: a burning tree with a burning neighbor keeps burning.
forestFireRuleKeepsBurning(neighbors, currentState, ignitionProbability, random) ==
  IF currentState = FIRE_STATES.BURNING
  THEN [value |-> IF \E n \in DOMAIN neighbors : neighbors[n] = FIRE_STATES.BURNING
                  THEN FIRE_STATES.BURNING ELSE FIRE_STATES.BURNT,
        random |-> random]
  ELSE IF /\ currentState = FIRE_STATES.TREE
          /\ \E n \in DOMAIN neighbors : neighbors[n] = FIRE_STATES.BURNING
       THEN [value |-> IF Head(random) < ignitionProbability
                       THEN FIRE_STATES.BURNING ELSE FIRE_STATES.TREE,
             random |-> Tail(random)]
       ELSE [value |-> currentState, random |-> random]

\* Faulty variant: a tree may catch fire with no burning neighbor.
forestFireRuleSpontaneous(neighbors, currentState, ignitionProbability, random) ==
  IF currentState = FIRE_STATES.BURNING
  THEN [value |-> FIRE_STATES.BURNT, random |-> random]
  ELSE IF currentState = FIRE_STATES.TREE
       THEN [value |-> IF Head(random) < ignitionProbability
                       THEN FIRE_STATES.BURNING ELSE FIRE_STATES.TREE,
             random |-> Tail(random)]
       ELSE [value |-> currentState, random |-> random]

\* Faulty variant: a burnt cell grows a new tree.
forestFireRuleRegrows(neighbors, currentState, ignitionProbability, random) ==
  IF currentState = FIRE_STATES.BURNING
  THEN [value |-> FIRE_STATES.BURNT, random |-> random]
  ELSE IF currentState = FIRE_STATES.BURNT
       THEN [value |-> FIRE_STATES.TREE, random |-> random]
       ELSE IF /\ currentState = FIRE_STATES.TREE
               /\ \E n \in DOMAIN neighbors : neighbors[n] = FIRE_STATES.BURNING
            THEN [value |-> IF Head(random) < ignitionProbability
                            THEN FIRE_STATES.BURNING ELSE FIRE_STATES.TREE,
                  random |-> Tail(random)]
            ELSE [value |-> currentState, random |-> random]

\* The value returned, and the values Math.random has yet to return.
forestFireRule(neighbors, currentState, ignitionProbability, random) ==
  IF currentState = FIRE_STATES.BURNING
  THEN [value |-> FIRE_STATES.BURNT, random |-> random]
  ELSE IF /\ currentState = FIRE_STATES.TREE
          /\ \E n \in DOMAIN neighbors : neighbors[n] = FIRE_STATES.BURNING
       THEN [value |-> IF Head(random) < ignitionProbability
                       THEN FIRE_STATES.BURNING ELSE FIRE_STATES.TREE,
             random |-> Tail(random)]
       ELSE [value |-> currentState, random |-> random]

CRYSTAL_STATES == [EMPTY |-> 0, CRYSTAL |-> 1]

\* Faulty variant: the seed in the corner.
crystalSeedInitializerCorner(h, rows, cols) ==
  createGrid(h, rows, cols,
             [p \in Positions(rows, cols) |->
                IF p[1] = 0 /\ p[2] = 0
                THEN CRYSTAL_STATES.CRYSTAL ELSE CRYSTAL_STATES.EMPTY])

\* Math.floor(rows / 2) and Math.floor(cols / 2) are integer divisions.
crystalSeedInitializer(h, rows, cols) ==
  LET centerRow == rows \div 2
      centerCol == cols \div 2
  IN  createGrid(h, rows, cols,
                 [p \in Positions(rows, cols) |->
                    IF p[1] = centerRow /\ p[2] = centerCol
                    THEN CRYSTAL_STATES.CRYSTAL ELSE CRYSTAL_STATES.EMPTY])

\* Faulty variant: a crystal with fewer crystal neighbors than the threshold dissolves.
simpleCrystalRuleDissolves(neighbors, currentState, threshold) ==
  LET crystalNeighbors ==
        reduce(neighbors,
               [s \in StatesOf(neighbors) |-> IF s = CRYSTAL_STATES.CRYSTAL THEN 1 ELSE 0], 0)
  IN  IF crystalNeighbors >= threshold
      THEN CRYSTAL_STATES.CRYSTAL
      ELSE CRYSTAL_STATES.EMPTY

\* Faulty variant: the threshold itself is not enough, it takes more.
simpleCrystalRuleAboveThreshold(neighbors, currentState, threshold) ==
  LET crystalNeighbors ==
        reduce(neighbors,
               [s \in StatesOf(neighbors) |-> IF s = CRYSTAL_STATES.CRYSTAL THEN 1 ELSE 0], 0)
  IN  IF currentState = CRYSTAL_STATES.EMPTY /\ crystalNeighbors > threshold
      THEN CRYSTAL_STATES.CRYSTAL
      ELSE currentState

simpleCrystalRule(neighbors, currentState, threshold) ==
  LET crystalNeighbors ==
        reduce(neighbors,
               [s \in StatesOf(neighbors) |-> IF s = CRYSTAL_STATES.CRYSTAL THEN 1 ELSE 0], 0)
  IN  IF currentState = CRYSTAL_STATES.EMPTY /\ crystalNeighbors >= threshold
      THEN CRYSTAL_STATES.CRYSTAL
      ELSE currentState

\* The threshold of a call that passes none.
DefaultThreshold == 3

\* simpleCrystalRule as called with the arguments given: two or three.
simpleCrystalRuleCall(a) ==
  simpleCrystalRule(a.neighbors, a.currentState,
                    IF "threshold" \in DOMAIN a THEN a.threshold ELSE DefaultThreshold)

(***************************************************************************)
(* Rule Catalog: elementary rules from a Wolfram code                      *)
(***************************************************************************)
\* The number NaN, written as a number that is no cell state and no digit.
NaN == -1

RECURSIVE toString2(_)
\* Number.prototype.toString(2) of a non-negative integer.
toString2(n) ==
  IF n < 2 THEN << (IF n = 1 THEN "1" ELSE "0") >>
  ELSE Append(toString2(n \div 2), (IF n % 2 = 1 THEN "1" ELSE "0"))

RECURSIVE padStart(_, _, _)
padStart(str, targetLength, padChar) ==
  IF Len(str) >= targetLength THEN str
  ELSE padStart(<<padChar>> \o str, targetLength, padChar)

\* parseInt(x, 10) of what indexing a string yields: one character, or
\* undefined when the index is outside the string.
parseInt(str, index) ==
  IF index \in 0..(Len(str) - 1)
  THEN (CASE str[index + 1] = "0" -> 0
          [] str[index + 1] = "1" -> 1
          [] OTHER -> NaN)
  ELSE NaN

\* Faulty variant: the pattern used as the index without the 7 - ... reversal.
elementaryRuleUnreversed(binaryRule, left, center, right) ==
  LET patternIndex == left * 4 + center * 2 + right * 1
  IN  parseInt(binaryRule, patternIndex)

\* The rule function getElementaryRule returns, closed over binaryRule.
elementaryRule(binaryRule, left, center, right) ==
  LET patternIndex == 7 - (left * 4 + center * 2 + right * 1)
  IN  parseInt(binaryRule, patternIndex)

\* Faulty variant: the upper limit tested with >= instead of >.
getElementaryRuleBelow255(ruleNumber) ==
  IF ruleNumber < 0 \/ ruleNumber >= 255
  THEN [ok |-> FALSE, error |-> "Rule number must be between 0 and 255."]
  ELSE [ok   |-> TRUE,
        rule |-> [kind |-> "elementary",
                  binaryRule |-> padStart(toString2(ruleNumber), 8, "0")]]

getElementaryRule(ruleNumber) ==
  IF ruleNumber < 0 \/ ruleNumber > 255
  THEN [ok |-> FALSE, error |-> "Rule number must be between 0 and 255."]
  ELSE [ok   |-> TRUE,
        rule |-> [kind |-> "elementary",
                  binaryRule |-> padStart(toString2(ruleNumber), 8, "0")]]

(***************************************************************************)
(* Rule Catalog: the Birth/Survival notation parser                        *)
(***************************************************************************)
\* Strings are sequences of characters.  Two characters outside ASCII are
\* written by code point: U+017F (long s) and U+00DF (sharp s).
toUpperCaseChar(c) ==
  CASE c = "b" -> <<"B">>
    [] c = "s" -> <<"S">>
    [] c = "x" -> <<"X">>
    [] c = "U+017F" -> <<"S">>
    [] c = "U+00DF" -> <<"S", "S">>
    [] OTHER -> <<c>>

RECURSIVE toUpperCase(_)
toUpperCase(str) ==
  IF str = <<>> THEN <<>>
  ELSE toUpperCaseChar(Head(str)) \o toUpperCase(Tail(str))

\* Faulty variant: the character class written [0-9].
Class0to9 == {"0", "1", "2", "3", "4", "5", "6", "7", "8", "9"}

\* Faulty variant: the character class lets a letter through.
Class0to8AndX == {"0", "1", "2", "3", "4", "5", "6", "7", "8", "X"}

Class0to8 == {"0", "1", "2", "3", "4", "5", "6", "7", "8"}

RECURSIVE starRun(_, _)
\* How many characters [0-8]* consumes from position from (1-based) on.
starRun(str, from) ==
  IF from <= Len(str) /\ str[from] \in Class0to8
  THEN 1 + starRun(str, from + 1)
  ELSE 0

\* What match returns when the string does not match (null).
NoMatch == <<>>

\* str.match(/^B([0-8]*)\/S([0-8]*)$/): the two groups, or NoMatch.
match(str) ==
  IF Len(str) >= 1 /\ str[1] = "B"
  THEN LET slash == 2 + starRun(str, 2)
       IN  IF slash + 1 <= Len(str) /\ str[slash] = "/" /\ str[slash + 1] = "S"
           THEN (IF slash + 1 + starRun(str, slash + 2) = Len(str)
                 THEN << SubSeq(str, 2, slash - 1), SubSeq(str, slash + 2, Len(str)) >>
                 ELSE NoMatch)
           ELSE NoMatch
  ELSE NoMatch

\* Number(c) of a one-character string.
Number(c) ==
  CASE c = "0" -> 0 [] c = "1" -> 1 [] c = "2" -> 2 [] c = "3" -> 3
    [] c = "4" -> 4 [] c = "5" -> 5 [] c = "6" -> 6 [] c = "7" -> 7
    [] c = "8" -> 8 [] c = "9" -> 9
    [] OTHER -> NaN

parseBSRule(ruleString) ==
  LET m == match(toUpperCase(ruleString))
  IN  IF m = NoMatch
      THEN [ok |-> FALSE, error |-> "Invalid B/S rule format."]
      ELSE LET birthConditions    == [n \in DOMAIN m[1] |-> Number(m[1][n])]
               survivalConditions == [n \in DOMAIN m[2] |-> Number(m[2][n])]
           IN  IF NaN \in StatesOf(birthConditions) \/ NaN \in StatesOf(survivalConditions)
               THEN [ok |-> FALSE, error |-> "Invalid digits in B/S rule."]
               ELSE [ok   |-> TRUE,
                     rule |-> [kind |-> "parsed",
                               birthSet    |-> StatesOf(birthConditions),
                               survivalSet |-> StatesOf(survivalConditions)]]

(***************************************************************************)
(* Rule functions as values.  A RuleFunction is any function of the        *)
(* neighbor array and the current state; besides the library's rules the   *)
(* callers here pass one of their own, which returns the neighbor at a     *)
(* fixed position of the array.                                            *)
(***************************************************************************)
RuleFunction(r, neighbors, currentState) ==
  CASE r.kind = "conway"     -> conwayRule(neighbors, currentState)
    [] r.kind = "seeds"      -> seedsRule(neighbors, currentState)
    [] r.kind = "highLife"   -> highLifeRule(neighbors, currentState)
    [] r.kind = "parsed"     -> parsedRule(r.birthSet, r.survivalSet, neighbors, currentState)
    [] r.kind = "neighborAt" -> neighbors[r.index]
    [] r.kind = "forestFire" ->
         forestFireRule(neighbors, currentState, r.ignitionProbability, r.random).value
    [] r.kind = "crystal"    -> simpleCrystalRule(neighbors, currentState, r.threshold)

\* The rule function as the next call finds it: the forest rule has taken
\* from Math.random what it drew, the others are as they were.
RuleAfterCall(r, neighbors, currentState) ==
  IF r.kind = "forestFire"
  THEN [r EXCEPT !.random =
          forestFireRule(neighbors, currentState, r.ignitionProbability, r.random).random]
  ELSE r

ElementaryRuleFunction(r, left, center, right) ==
  elementaryRule(r.binaryRule, left, center, right)

(***************************************************************************)
(* Neighborhood & Stepping Function                                        *)
(***************************************************************************)
\* The (x, y) pairs the two inner loops visit, in order, the centre skipped.
MooreOffsets ==
  SelectSeq([n \in 1..9 |-> << ((n - 1) \div 3) - 1, ((n - 1) % 3) - 1 >>],
            LAMBDA o : ~(o[1] = 0 /\ o[2] = 0))

\* Faulty variant: the two inner loops nested the other way round.
MooreNeighborsColumnMajor(h, currentGrid, i, j, rows, cols) ==
  [n \in 1..Len(MooreOffsets) |->
     LET ni == (i + MooreOffsets[n][2] + rows) % rows
         nj == (j + MooreOffsets[n][1] + cols) % cols
     IN  h[h[currentGrid][ni + 1]][nj + 1]]

Clamp(v, size) == IF v < 0 THEN 0 ELSE IF v > size - 1 THEN size - 1 ELSE v

\* Faulty variant: coordinates beyond an edge clamped to the edge.
MooreNeighborsClamped(h, currentGrid, i, j, rows, cols) ==
  [n \in 1..Len(MooreOffsets) |->
     LET ni == Clamp(i + MooreOffsets[n][1], rows)
         nj == Clamp(j + MooreOffsets[n][2], cols)
     IN  h[h[currentGrid][ni + 1]][nj + 1]]

\* Faulty variant: cells beyond an edge read as the fixed value 0 (dead border).
MooreNeighborsDeadBorder(h, currentGrid, i, j, rows, cols) ==
  [n \in 1..Len(MooreOffsets) |->
     LET ni == i + MooreOffsets[n][1]
         nj == j + MooreOffsets[n][2]
     IN  IF ni \in 0..(rows - 1) /\ nj \in 0..(cols - 1)
         THEN h[h[currentGrid][ni + 1]][nj + 1]
         ELSE 0]

\* The neighbors array built for cell (i, j) of currentGrid (0-based).
MooreNeighbors(h, currentGrid, i, j, rows, cols) ==
  [n \in 1..Len(MooreOffsets) |->
     LET ni == (i + MooreOffsets[n][1] + rows) % rows
         nj == (j + MooreOffsets[n][2] + cols) % cols
     IN  h[h[currentGrid][ni + 1]][nj + 1]]

RECURSIVE cellLoop(_, _, _, _, _, _, _, _)
\* The two outer loops of nextGeneration from the k-th cell on, in row-major
\* order: each pass calls the rule and writes one cell of newGrid.
cellLoop(h, calls, currentGrid, newGrid, r, rows, cols, k) ==
  IF k >= rows * cols THEN [heap |-> h, calls |-> calls]
  ELSE LET i == k \div cols
           j == k % cols
           neighbors == MooreNeighbors(h, currentGrid, i, j, rows, cols)
           current   == h[h[currentGrid][i + 1]][j + 1]
           written   == [h EXCEPT ![h[newGrid][i + 1]][j + 1] =
                                     RuleFunction(r, neighbors, current)]
       IN  cellLoop(written,
                    Append(calls, [neighbors |-> neighbors, currentState |-> current]),
                    currentGrid, newGrid, RuleAfterCall(r, neighbors, current),
                    rows, cols, k + 1)

\* Faulty variant: the next generation written into the rows of the current grid.
nextGenerationInPlace(h, currentGrid, r) ==
  IF currentGrid = NULL \/ Len(h[currentGrid]) = 0 \/ Len(h[h[currentGrid][1]]) = 0
  THEN LET empty == FreeRefs(h, 1)[1]
       IN  [heap |-> (empty :> <<>>) @@ h, ref |-> empty, calls |-> <<>>]
  ELSE LET rows    == Len(h[currentGrid])
           cols    == Len(h[h[currentGrid][1]])
           looped  == cellLoop(h, <<>>, currentGrid, currentGrid, r, rows, cols, 0)
       IN  [heap |-> looped.heap, ref |-> currentGrid, calls |-> looped.calls]

\* Faulty variant: the emptiness test off by one (length <= 1), so that a grid of a
\* single row counts as empty.
nextGenerationSingleRowEmpty(h, currentGrid, r) ==
  IF currentGrid = NULL \/ Len(h[currentGrid]) <= 1 \/ Len(h[h[currentGrid][1]]) = 0
  THEN LET empty == FreeRefs(h, 1)[1]
       IN  [heap |-> (empty :> <<>>) @@ h, ref |-> empty, calls |-> <<>>]
  ELSE LET rows    == Len(h[currentGrid])
           cols    == Len(h[h[currentGrid][1]])
           created == createGrid(h, rows, cols, [p \in Positions(rows, cols) |-> 0])
           looped  == cellLoop(created.heap, <<>>, currentGrid, created.ref,
                               r, rows, cols, 0)
       IN  [heap |-> looped.heap, ref |-> created.ref, calls |-> looped.calls]

\* Faulty variant: no test of the width, so that rows of no cells give rows of no
\* cells.
nextGenerationKeepsEmptyRows(h, currentGrid, r) ==
  IF currentGrid = NULL \/ Len(h[currentGrid]) = 0
  THEN LET empty == FreeRefs(h, 1)[1]
       IN  [heap |-> (empty :> <<>>) @@ h, ref |-> empty, calls |-> <<>>]
  ELSE LET rows    == Len(h[currentGrid])
           cols    == Len(h[h[currentGrid][1]])
           created == createGrid(h, rows, cols, [p \in Positions(rows, cols) |-> 0])
           looped  == cellLoop(created.heap, <<>>, currentGrid, created.ref,
                               r, rows, cols, 0)
       IN  [heap |-> looped.heap, ref |-> created.ref, calls |-> looped.calls]

nextGeneration(h, currentGrid, r) ==
  IF currentGrid = NULL \/ Len(h[currentGrid]) = 0 \/ Len(h[h[currentGrid][1]]) = 0
  THEN LET empty == FreeRefs(h, 1)[1]
       IN  [heap |-> (empty :> <<>>) @@ h, ref |-> empty, calls |-> <<>>]
  ELSE LET rows    == Len(h[currentGrid])
           cols    == Len(h[h[currentGrid][1]])
           created == createGrid(h, rows, cols, [p \in Positions(rows, cols) |-> 0])
           looped  == cellLoop(created.heap, <<>>, currentGrid, created.ref,
                               r, rows, cols, 0)
       IN  [heap |-> looped.heap, ref |-> created.ref, calls |-> looped.calls]

RECURSIVE oneDLoopNoWrap(_, _, _, _, _, _, _)
\* Faulty variant: the row does not wrap, beyond either end lies a cell in state 0.
oneDLoopNoWrap(h, calls, currentGrid, newGrid, r, size, i) ==
  IF i >= size THEN [heap |-> h, calls |-> calls]
  ELSE LET left    == IF i = 0 THEN 0 ELSE h[currentGrid][i]
           center  == h[currentGrid][i + 1]
           right   == IF i = size - 1 THEN 0 ELSE h[currentGrid][i + 2]
           written == [h EXCEPT ![newGrid][i + 1] =
                                   ElementaryRuleFunction(r, left, center, right)]
       IN  oneDLoopNoWrap(written, Append(calls, <<left, center, right>>),
                          currentGrid, newGrid, r, size, i + 1)

RECURSIVE oneDLoop(_, _, _, _, _, _, _)
\* The loop of nextOneDGeneration from index i on.
oneDLoop(h, calls, currentGrid, newGrid, r, size, i) ==
  IF i >= size THEN [heap |-> h, calls |-> calls]
  ELSE LET left    == h[currentGrid][((i - 1 + size) % size) + 1]
           center  == h[currentGrid][i + 1]
           right   == h[currentGrid][((i + 1) % size) + 1]
           written == [h EXCEPT ![newGrid][i + 1] =
                                   ElementaryRuleFunction(r, left, center, right)]
       IN  oneDLoop(written, Append(calls, <<left, center, right>>),
                    currentGrid, newGrid, r, size, i + 1)

nextOneDGeneration(h, currentGrid, r) ==
  IF currentGrid = NULL \/ Len(h[currentGrid]) = 0
  THEN LET empty == FreeRefs(h, 1)[1]
       IN  [heap |-> (empty :> <<>>) @@ h, ref |-> empty, calls |-> <<>>]
  ELSE LET size    == Len(h[currentGrid])
           created == createOneDGrid(h, size, [i \in 0..(size - 1) |-> 0])
           looped  == oneDLoop(created.heap, <<>>, currentGrid, created.ref,
                               r, size, 0)
       IN  [heap |-> looped.heap, ref |-> created.ref, calls |-> looped.calls]

(***************************************************************************)
(* The callers of the steppers.  A 2D caller holds a grid and a rule and   *)
(* replaces the grid by the next generation on every step; a 1D caller     *)
(* does the same with a row.  Either may keep a reference to a generation  *)
(* it has held (the history of rows, the grid handed to the display).      *)
(***************************************************************************)
EmptyHeap == [r \in {} |-> <<>>]

\* Rows and columns of a grid given as cell states.
Rows(g) == Len(g)
Cols(g) == IF Len(g) = 0 THEN 0 ELSE Len(g[1])

\* randomInitializer yields 0 or 1 for every cell.
BinaryStates == {0, 1}

\* The rule functions a 2D caller steps with.
FamousRules ==
  {[kind |-> "conway"], [kind |-> "seeds"], [kind |-> "highLife"]}

CallerRules == {[kind |-> "neighborAt", index |-> 2]}

\* The Wolfram codes the 1D caller offers by name.
NamedCodes == {30, 90, 110, 184}

Roots(h, refs2D, refs1D) ==
  UNION {Reach2D(h, g) : g \in refs2D} \cup UNION {Reach1D(g) : g \in refs1D}

InitGrid2D ==
  \E rows \in 0..MaxRows, cols \in 0..MaxCols :
    \E cells \in [Positions(rows, cols) -> BinaryStates] :
      LET created == createGrid(EmptyHeap, rows, cols, cells)
      IN  /\ \/ rows * cols <= MaxCells
             \/ Cardinality({p \in DOMAIN cells : cells[p] = 1}) <= MaxLive
          /\ heap = created.heap
          /\ grid = created.ref
          /\ row = NULL
          /\ rule \in FamousRules \cup CallerRules

InitGrid1D ==
  \E size \in 0..MaxSize :
    \E cells \in [0..(size - 1) -> BinaryStates] :
      LET created == createOneDGrid(EmptyHeap, size, cells)
      IN  /\ heap = created.heap
          /\ row = created.ref
          /\ grid = NULL
          /\ rule \in {getElementaryRule(code).rule : code \in NamedCodes}

\* No rule or rule constructor has been called on its own.
NoCall == args = <<>> /\ returned = <<>> /\ applied = <<>>

InitGrid ==
  /\ InitGrid2D \/ InitGrid1D
  /\ generation = 0
  /\ NoCall /\ component = NULL
  /\ kept = NULL
  /\ keptSnap = <<>>
  /\ inputRefs = {}
  /\ inputSnap = <<>>
  /\ inputAfter = <<>>
  /\ ruleCalls = <<>>
  /\ keptResults = <<>>
  /\ called = "none"

\* One step of a 2D caller: setGrid(currentGrid => nextGeneration(currentGrid, rule)).
Step2D ==
  /\ grid # NULL
  /\ \E result \in {nextGeneration(heap, grid, rule)} :
       /\ grid' = result.ref
       /\ ruleCalls' = result.calls
       /\ heap' = Collect(result.heap, Roots(result.heap, {result.ref, kept}, {}))
       /\ inputAfter' = Deref2D(result.heap, grid)
  /\ inputRefs' = Reach2D(heap, grid)
  /\ inputSnap' = Deref2D(heap, grid)
  /\ called' = "nextGeneration"
  /\ UNCHANGED <<row, rule, kept, keptSnap, generation, keptResults, args, returned, applied, component>>

\* One step of a 1D caller: currentGrid = nextOneDGeneration(currentGrid, ruleFunc).
Step1D ==
  /\ row # NULL
  /\ \E result \in {nextOneDGeneration(heap, row, rule)} :
       /\ row' = result.ref
       /\ ruleCalls' = result.calls
       /\ heap' = Collect(result.heap, Roots(result.heap, {}, {result.ref, kept}))
       /\ inputAfter' = result.heap[row]
  /\ inputRefs' = Reach1D(row)
  /\ inputSnap' = heap[row]
  /\ called' = "nextOneDGeneration"
  /\ UNCHANGED <<grid, rule, kept, keptSnap, generation, keptResults, args, returned, applied, component>>

\* The caller keeps the generation it holds.
Keep2D ==
  /\ grid # NULL
  /\ kept # grid
  /\ kept' = grid
  /\ keptSnap' = Deref2D(heap, grid)
  /\ heap' = Collect(heap, Roots(heap, {grid}, {}))
  /\ UNCHANGED <<grid, row, rule, inputRefs, inputSnap, inputAfter, ruleCalls, called,
               generation, keptResults, args, returned, applied, component>>

Keep1D ==
  /\ row # NULL
  /\ kept # row
  /\ kept' = row
  /\ keptSnap' = heap[row]
  /\ heap' = Collect(heap, Roots(heap, {}, {row}))
  /\ UNCHANGED <<grid, row, rule, inputRefs, inputSnap, inputAfter, ruleCalls, called,
               generation, keptResults, args, returned, applied, component>>

NextGrid == Step2D \/ Step1D \/ Keep2D \/ Keep1D

SpecGrid == InitGrid /\ [][NextGrid]_vars

(***************************************************************************)
(* The famous-rules simulator running Conway's rule on a grid that holds   *)
(* one glider.  The grid of generation 0 is kept for comparison.           *)
(***************************************************************************)
\* The standard glider with its 3x3 box at (r, c), on a rows x cols torus.
GliderCells(r, c, rows, cols) ==
  { << (r + d[1]) % rows, (c + d[2]) % cols >> :
      d \in { <<0, 1>>, <<1, 2>>, <<2, 0>>, <<2, 1>>, <<2, 2>> } }

GliderGrid(r, c, rows, cols) ==
  [i \in 1..rows |-> [j \in 1..cols |->
     IF <<i - 1, j - 1>> \in GliderCells(r, c, rows, cols) THEN 1 ELSE 0]]

InitGlider ==
  /\ \E r \in 0..(GliderRows - 1), c \in 0..(GliderCols - 1) :
       LET created == createGrid(EmptyHeap, GliderRows, GliderCols,
                                 [p \in Positions(GliderRows, GliderCols) |->
                                    GliderGrid(r, c, GliderRows, GliderCols)[p[1] + 1][p[2] + 1]])
       IN  /\ heap = created.heap
           /\ grid = created.ref
           /\ kept = created.ref
           /\ keptSnap = Deref2D(created.heap, created.ref)
  /\ row = NULL
  /\ rule = [kind |-> "conway"]
  /\ generation = 0
  /\ inputRefs = {}
  /\ inputSnap = <<>>
  /\ inputAfter = <<>>
  /\ ruleCalls = <<>>
  /\ keptResults = <<>>
  /\ called = "none"
  /\ NoCall /\ component = NULL

\* runSimulation of the simulator: one step, and the generation counted.
runSimulation ==
  /\ generation < MaxGenerations
  /\ grid # NULL
  /\ \E result \in {nextGeneration(heap, grid, rule)} :
       /\ grid' = result.ref
       /\ ruleCalls' = result.calls
       /\ heap' = Collect(result.heap, Roots(result.heap, {result.ref, kept}, {}))
       /\ inputAfter' = Deref2D(result.heap, grid)
  /\ inputRefs' = Reach2D(heap, grid)
  /\ inputSnap' = Deref2D(heap, grid)
  /\ called' = "nextGeneration"
  /\ generation' = generation + 1
  /\ UNCHANGED <<row, rule, kept, keptSnap, keptResults, args, returned, applied, component>>

NextGlider == runSimulation

SpecGlider == InitGlider /\ [][NextGlider]_vars

(***************************************************************************)
(* The 2D rule functions called on their own: any array of 8 neighbor      *)
(* states and any current state, each an integer code.                     *)
(***************************************************************************)
CellCodes == 0..MaxCellState

\* No grid is held and no stepper has been called.
NoGrid ==
  /\ heap = EmptyHeap /\ grid = NULL /\ row = NULL /\ rule = NULL
  /\ kept = NULL /\ keptSnap = <<>>
  /\ inputRefs = {} /\ inputSnap = <<>> /\ inputAfter = <<>>
  /\ ruleCalls = <<>> /\ generation = 0 /\ keptResults = <<>>

ConwayString == <<"B", "3", "/", "S", "2", "3">>

InitRules ==
  /\ NoGrid /\ component = NULL
  /\ \E neighbors \in [1..8 -> CellCodes], currentState \in CellCodes :
       args = [neighbors |-> neighbors, currentState |-> currentState]
  /\ returned = <<>>
  /\ applied = <<>>
  /\ called = "none"

CallRule(name, value) ==
  /\ called = "none"
  /\ called' = name
  /\ returned' = value
  /\ UNCHANGED <<gridVars, args, applied>>

CallConwayRule   == CallRule("conwayRule", conwayRule(args.neighbors, args.currentState))
CallSeedsRule    == CallRule("seedsRule", seedsRule(args.neighbors, args.currentState))
CallHighLifeRule == CallRule("highLifeRule", highLifeRule(args.neighbors, args.currentState))

\* parseBSRule("B3/S23")(neighbors, currentState)
CallParsedConway ==
  /\ parseBSRule(ConwayString).ok
  /\ CallRule("parseBSRule(B3/S23)",
              RuleFunction(parseBSRule(ConwayString).rule, args.neighbors, args.currentState))

NextRules == CallConwayRule \/ CallSeedsRule \/ CallHighLifeRule \/ CallParsedConway

SpecRules == InitRules /\ [][NextRules]_vars

(***************************************************************************)
(* getElementaryRule called with a code, and the rule it returns applied   *)
(* to one neighborhood.                                                    *)
(***************************************************************************)
MaxCode == 255

InitElementary ==
  /\ NoGrid /\ component = NULL
  /\ \E ruleNumber \in (0 - CodeMargin)..(MaxCode + CodeMargin),
        left \in CellCodes, center \in CellCodes, right \in CellCodes :
       args = [ruleNumber |-> ruleNumber, left |-> left, center |-> center, right |-> right]
  /\ returned = <<>>
  /\ applied = <<>>
  /\ called = "none"

CallGetElementaryRule ==
  /\ called = "none"
  /\ called' = "getElementaryRule"
  /\ returned' = getElementaryRule(args.ruleNumber)
  /\ UNCHANGED <<gridVars, args, applied>>

\* The returned rule function called; there is none if the constructor threw.
ApplyElementaryRule ==
  /\ called = "getElementaryRule"
  /\ returned.ok
  /\ called' = "ruleFunction"
  /\ applied' = <<ElementaryRuleFunction(returned.rule, args.left, args.center, args.right)>>
  /\ UNCHANGED <<gridVars, args, returned>>

NextElementary == CallGetElementaryRule \/ ApplyElementaryRule

SpecElementary == InitElementary /\ [][NextElementary]_vars

(***************************************************************************)
(* parseBSRule called with a string.                                       *)
(***************************************************************************)
Alphabet == {"B", "b", "S", "s", "X", "/", "3", "9", "U+017F", "U+00DF"}

\* Strings tried besides the short ones.
NamedStrings ==
  { <<"B", "3", "/", "S", "2", "3">>,
    <<"X", "3", "/", "S", "2", "3">>,
    <<"B", "9", "/", "S", "2", "3">>,
    <<"B", "3", "S", "2", "3">>,
    <<"b", "3", "6", "/", "s", "2", "3">>,
    <<"B", "3", "/", "S", "2", "3", "/">>,
    <<"B", "3", "/", "S", "2", "3", "X">>,
    <<"X", "B", "3", "/", "S", "2", "3">>,
    <<"B", "0", "8", "/", "S", "8", "8", "0">>,
    <<"B", "1", "3", "5", "7", "/", "S", "1", "3", "5", "7">>,
    <<"b", "/", "S", "0", "1", "2", "3", "4", "5", "6", "7", "8">> }

\* Neighbor arrays the returned rule is tried on: k neighbors in state 1, at
\* the front or at the back of the array, the others all in one other state.
NeighborProbes ==
  UNION { { [n \in 1..8 |-> IF n <= k THEN 1 ELSE other],
            [n \in 1..8 |-> IF n > 8 - k THEN 1 ELSE other] } :
          k \in 0..8, other \in CellCodes \ {1} }

InitParse ==
  /\ NoGrid /\ component = NULL
  /\ \E ruleString \in UNION {[1..n -> Alphabet] : n \in 0..MaxStrLen} \cup NamedStrings :
       args = [ruleString |-> ruleString]
  /\ returned = <<>>
  /\ applied = <<>>
  /\ called = "none"

CallParseBSRule ==
  /\ called = "none"
  /\ called' = "parseBSRule"
  /\ returned' = parseBSRule(args.ruleString)
  /\ UNCHANGED <<gridVars, args, applied>>

\* The returned rule function called; there is none if the parser threw.
ApplyParsedRule ==
  /\ called = "parseBSRule"
  /\ returned.ok
  /\ \E neighbors \in NeighborProbes, currentState \in CellCodes :
       /\ args' = [ruleString |-> args.ruleString,
                   neighbors |-> neighbors, currentState |-> currentState]
       /\ applied' = <<RuleFunction(returned.rule, neighbors, currentState)>>
  /\ called' = "parsedRule"
  /\ UNCHANGED <<gridVars, returned>>

NextParse == CallParseBSRule \/ ApplyParsedRule

SpecParse == InitParse /\ [][NextParse]_vars

(***************************************************************************)
(* The forest fire simulator's rule, forestFireRule closed over the        *)
(* ignition probability, stepping a grid of fire states; and the rule      *)
(* called on its own.                                                      *)
(***************************************************************************)
FireCodes == {FIRE_STATES.EMPTY, FIRE_STATES.TREE, FIRE_STATES.BURNING, FIRE_STATES.BURNT}

\* Ignition probabilities in hundredths: never, the simulator's default, the
\* library's default, always.
Probabilities == {0, 5, 40, 100}

\* Values of Math.random, in hundredths.
Draws == {0, 40, 99}

\* Neighbor arrays the rule is called with on its own: k burning neighbors,
\* at the front or at the back of the array, the others all in one other state.
FireProbes ==
  UNION { { [n \in 1..8 |-> IF n <= k THEN FIRE_STATES.BURNING ELSE other],
            [n \in 1..8 |-> IF n > 8 - k THEN FIRE_STATES.BURNING ELSE other] } :
          k \in 0..8, other \in FireCodes \ {FIRE_STATES.BURNING} }

InitForest ==
  /\ \/ \E rows \in 1..MaxRows : \E cols \in {c \in 1..MaxCols : rows * c <= ForestCells} :
          \E cells \in [Positions(rows, cols) -> FireCodes] :
            LET created == createGrid(EmptyHeap, rows, cols, cells)
            IN  /\ heap = created.heap
                /\ grid = created.ref
                /\ \E ignitionProb \in Probabilities :
                     rule = [kind |-> "forestFire", ignitionProbability |-> ignitionProb,
                             random |-> <<>>]
     \/ heap = EmptyHeap /\ grid = NULL /\ rule = NULL
  /\ row = NULL
  /\ generation = 0
  /\ NoCall /\ component = NULL
  /\ kept = NULL
  /\ keptSnap = <<>>
  /\ inputRefs = {}
  /\ inputSnap = <<>>
  /\ inputAfter = <<>>
  /\ ruleCalls = <<>>
  /\ keptResults = <<>>
  /\ called = "none"

\* How many cells of the grid are trees.
Trees(g) ==
  Cardinality({p \in Positions(Rows(g), Cols(g)) : g[p[1] + 1][p[2] + 1] = FIRE_STATES.TREE})

\* One step with the simulator's ruleFunc; Math.random returns any values, as
\* many as there are trees to draw for.
StepForest ==
  /\ grid # NULL
  /\ \E random \in [1..Trees(Deref2D(heap, grid)) -> Draws] :
       \E result \in {nextGeneration(heap, grid, [rule EXCEPT !.random = random])} :
         /\ grid' = result.ref
         /\ ruleCalls' = result.calls
         /\ heap' = Collect(result.heap, Roots(result.heap, {result.ref, kept}, {}))
         /\ inputAfter' = Deref2D(result.heap, grid)
  /\ inputRefs' = Reach2D(heap, grid)
  /\ inputSnap' = Deref2D(heap, grid)
  /\ called' = "nextGeneration"
  /\ UNCHANGED <<row, rule, kept, keptSnap, generation, keptResults, args, returned, applied, component>>

\* forestFireRule(neighbors, currentState, ignitionProbability) called directly.
CallForestFireRule ==
  /\ grid = NULL
  /\ called = "none"
  /\ \E neighbors \in FireProbes, currentState \in FireCodes,
        ignitionProbability \in Probabilities, draw \in Draws :
       /\ args' = [neighbors |-> neighbors, currentState |-> currentState,
                   ignitionProbability |-> ignitionProbability, random |-> <<draw>>]
       /\ returned' = forestFireRule(neighbors, currentState,
                                     ignitionProbability, <<draw>>).value
  /\ called' = "forestFireRule"
  /\ UNCHANGED <<gridVars, applied>>

NextForest == StepForest \/ CallForestFireRule

SpecForest == InitForest /\ [][NextForest]_vars

(***************************************************************************)
(* A fire followed from its first grid, which is kept, the steps counted   *)
(* in generation.                                                          *)
(***************************************************************************)
InitFire ==
  /\ \E rows \in 1..MaxRows : \E cols \in {c \in 1..MaxCols : rows * c <= ForestCells} :
       \E cells \in [Positions(rows, cols) -> FireCodes] :
         LET created == createGrid(EmptyHeap, rows, cols, cells)
         IN  /\ heap = created.heap
             /\ grid = created.ref
             /\ kept = created.ref
             /\ keptSnap = Deref2D(created.heap, created.ref)
  /\ \E ignitionProb \in Probabilities :
       rule = [kind |-> "forestFire", ignitionProbability |-> ignitionProb, random |-> <<>>]
  /\ row = NULL
  /\ generation = 0
  /\ NoCall /\ component = NULL
  /\ inputRefs = {}
  /\ inputSnap = <<>>
  /\ inputAfter = <<>>
  /\ ruleCalls = <<>>
  /\ keptResults = <<>>
  /\ called = "none"

\* One more step of the fire.
StepFire ==
  /\ generation < MaxFireSteps
  /\ \E random \in [1..Trees(Deref2D(heap, grid)) -> Draws] :
       \E result \in {nextGeneration(heap, grid, [rule EXCEPT !.random = random])} :
         /\ grid' = result.ref
         /\ ruleCalls' = result.calls
         /\ heap' = Collect(result.heap, Roots(result.heap, {result.ref, kept}, {}))
         /\ inputAfter' = Deref2D(result.heap, grid)
  /\ inputRefs' = Reach2D(heap, grid)
  /\ inputSnap' = Deref2D(heap, grid)
  /\ called' = "nextGeneration"
  /\ generation' = generation + 1
  /\ UNCHANGED <<row, rule, kept, keptSnap, keptResults, args, returned, applied, component>>

NextFire == StepFire

SpecFire == InitFire /\ [][NextFire]_vars

(***************************************************************************)
(* The crystal growth simulator's rule, simpleCrystalRule closed over the  *)
(* threshold, stepping a grid of EMPTY and CRYSTAL cells.                  *)
(***************************************************************************)
InitCrystal ==
  /\ \/ /\ \E rows \in 1..MaxRows :
             \E cols \in {c \in 1..MaxCols : rows * c <= CrystalCells} :
               \E cells \in [Positions(rows, cols) ->
                               {CRYSTAL_STATES.EMPTY, CRYSTAL_STATES.CRYSTAL}] :
                 LET created == createGrid(EmptyHeap, rows, cols, cells)
                 IN  /\ heap = created.heap
                     /\ grid = created.ref
        /\ \E threshold \in 0..MaxThreshold :
             rule = [kind |-> "crystal", threshold |-> threshold]
     \/ heap = EmptyHeap /\ grid = NULL /\ rule = NULL
  /\ row = NULL
  /\ generation = 0
  /\ NoCall /\ component = NULL
  /\ kept = NULL
  /\ keptSnap = <<>>
  /\ inputRefs = {}
  /\ inputSnap = <<>>
  /\ inputAfter = <<>>
  /\ ruleCalls = <<>>
  /\ keptResults = <<>>
  /\ called = "none"

\* Thresholds the rule is called with on its own: none of the neighbors
\* needed, up to more than there are neighbors.
CallThresholds == 0..9

\* simpleCrystalRule(neighbors, currentState) and
\* simpleCrystalRule(neighbors, currentState, threshold) called directly.
CallSimpleCrystalRule ==
  /\ grid = NULL
  /\ called = "none"
  /\ \E neighbors \in [1..8 -> BinaryStates] \cup NeighborProbes, currentState \in CellCodes :
       \E a \in {[neighbors |-> neighbors, currentState |-> currentState]}
                \cup {[neighbors |-> neighbors, currentState |-> currentState,
                       threshold |-> t] : t \in CallThresholds} :
         /\ args' = a
         /\ returned' = simpleCrystalRuleCall(a)
  /\ called' = "simpleCrystalRule"
  /\ UNCHANGED <<gridVars, applied>>

NextCrystal == Step2D \/ Keep2D \/ CallSimpleCrystalRule

SpecCrystal == InitCrystal /\ [][NextCrystal]_vars

(***************************************************************************)
(* The crystal growth simulator started from its seed: grid, threshold     *)
(* and generation counter; the seeded grid is kept for comparison.         *)
(***************************************************************************)
\* The thresholds the simulator's slider offers.
SliderThresholds == 1..8

InitSeed ==
  /\ \E rows \in 1..SeedRows, cols \in 1..SeedCols :
       \E created \in {crystalSeedInitializer(EmptyHeap, rows, cols)} :
         /\ heap = created.heap
         /\ grid = created.ref
         /\ kept = created.ref
         /\ keptSnap = Deref2D(created.heap, created.ref)
  /\ \E threshold \in SliderThresholds :
       rule = [kind |-> "crystal", threshold |-> threshold]
  /\ row = NULL
  /\ generation = 0
  /\ NoCall /\ component = NULL
  /\ inputRefs = {}
  /\ inputSnap = <<>>
  /\ inputAfter = <<>>
  /\ ruleCalls = <<>>
  /\ keptResults = <<>>
  /\ called = "none"

\* runSimulation of the crystal growth simulator.
crystalRunSimulation ==
  /\ generation < MaxGenerations
  /\ \E result \in {nextGeneration(heap, grid, rule)} :
       /\ grid' = result.ref
       /\ ruleCalls' = result.calls
       /\ heap' = Collect(result.heap, Roots(result.heap, {result.ref, kept}, {}))
       /\ inputAfter' = Deref2D(result.heap, grid)
  /\ inputRefs' = Reach2D(heap, grid)
  /\ inputSnap' = Deref2D(heap, grid)
  /\ called' = "nextGeneration"
  /\ generation' = generation + 1
  /\ UNCHANGED <<row, rule, kept, keptSnap, keptResults, args, returned, applied, component>>

NextSeed == crystalRunSimulation

SpecSeed == InitSeed /\ [][NextSeed]_vars

(***************************************************************************)
(* A caller that keeps the grid it starts with and calls nextGeneration    *)
(* on it more than once, with stepping calls on later generations in       *)
(* between.                                                                *)
(***************************************************************************)
ReplicatorString == <<"B", "1", "3", "5", "7", "/", "S", "1", "3", "5", "7">>

\* The fixed rules: the three of the library and one parseBSRule returned.
FixedRules == FamousRules \cup {parseBSRule(ReplicatorString).rule}

InitReplay ==
  /\ \E rows \in 1..MaxRows : \E cols \in {c \in 1..MaxCols : rows * c <= ReplayCells} :
       \E cells \in [Positions(rows, cols) -> BinaryStates] :
         LET created == createGrid(EmptyHeap, rows, cols, cells)
         IN  /\ heap = created.heap
             /\ grid = created.ref
             /\ kept = created.ref
             /\ keptSnap = Deref2D(created.heap, created.ref)
  /\ rule \in FixedRules
  /\ row = NULL
  /\ generation = 0
  /\ NoCall /\ component = NULL
  /\ inputRefs = {}
  /\ inputSnap = <<>>
  /\ inputAfter = <<>>
  /\ ruleCalls = <<>>
  /\ keptResults = <<>>
  /\ called = "none"

\* nextGeneration(g, rule) for g the kept grid or the grid held; the caller
\* holds the result, and notes it if the argument was the kept grid.  The
\* calls made so far are counted in generation.
StepFrom(g) ==
  /\ generation < MaxCalls
  /\ \E result \in {nextGeneration(heap, g, rule)} :
       /\ grid' = result.ref
       /\ ruleCalls' = result.calls
       /\ heap' = Collect(result.heap, Roots(result.heap, {result.ref, kept}, {}))
       /\ inputAfter' = Deref2D(result.heap, g)
       /\ keptResults' = IF g = kept
                         THEN Append(keptResults,
                                     [call |-> generation + 1,
                                      grid |-> Deref2D(result.heap, result.ref)])
                         ELSE keptResults
  /\ inputRefs' = Reach2D(heap, g)
  /\ inputSnap' = Deref2D(heap, g)
  /\ called' = "nextGeneration"
  /\ generation' = generation + 1
  /\ UNCHANGED <<row, rule, kept, keptSnap, args, returned, applied, component>>

StepKept == StepFrom(kept)

StepLatest == grid # kept /\ StepFrom(grid)

NextReplay == StepKept \/ StepLatest

SpecReplay == InitReplay /\ [][NextReplay]_vars

(***************************************************************************)
(* The rules of the catalog called on their own: every array of 8 neighbor *)
(* states over {0,1}, arrays with neighbors in other states, and every     *)
(* current state.                                                          *)
(***************************************************************************)
CatalogNames ==
  {"Day & Night", "Maze", "Replicator", "Seeds", "Diamoeba", "2x2", "Move", "Serviettes"}

InitCatalog ==
  /\ NoGrid /\ component = NULL
  /\ \E neighbors \in [1..8 -> BinaryStates] \cup NeighborProbes, currentState \in CellCodes :
       args = [neighbors |-> neighbors, currentState |-> currentState]
  /\ returned = <<>>
  /\ applied = <<>>
  /\ called = "none"

\* selectedRule.rule(neighbors, current) for the entry of the given name.
CallCatalogRule ==
  \E name \in CatalogNames :
    CallRule(name, CatalogRule(name, args.neighbors, args.currentState))

NextCatalog == CallCatalogRule

SpecCatalog == InitCatalog /\ [][NextCatalog]_vars

(***************************************************************************)
(* The B/S simulator component.  component holds what it last rendered     *)
(* with (ruleString, ruleFunction, ruleError, isRunning), the interval of  *)
(* intervalRef, given as the ruleFunction the runSimulation it calls was   *)
(* made with, and the effects of that render that have not run yet.  A     *)
(* user event is taken with the render it causes and the effects of that   *)
(* render, except the effect of ruleString, whose state updates are        *)
(* rendered later; the effects of that later render run later still, and   *)
(* before the next user event.  The interval fires whenever it is set.     *)
(***************************************************************************)
RuleStrings ==
  { <<"B", "3", "/", "S", "2", "3">>,
    <<"B", "1", "/", "S">>,
    <<"b", "/", "s", "0">>,
    <<"B", "3", "S", "2", "3">>,
    <<"B", "9", "/", "S", "2">>,
    <<>> }

\* A state value that may be null: <<>> is null, <<v>> is the value v.
null == <<>>

\* useState's initializer: the parsed rule, or null if the parser threw.
initialRuleFunction(initialRuleString) ==
  IF parseBSRule(initialRuleString).ok THEN <<parseBSRule(initialRuleString).rule>> ELSE null

InitCustomRule ==
  /\ \E rows \in 1..MaxRows : \E cols \in {c \in 1..MaxCols : rows * c <= DriverCells} :
       \E cells \in [Positions(rows, cols) -> BinaryStates] :
         LET created == createGrid(EmptyHeap, rows, cols, cells)
         IN  /\ heap = created.heap
             /\ grid = created.ref
  /\ \E initialRuleString \in RuleStrings :
       component = [ruleString   |-> initialRuleString,
                    ruleFunction |-> initialRuleFunction(initialRuleString),
                    ruleError    |-> null,
                    isRunning    |-> FALSE,
                    intervalRef  |-> null,
                    effects      |-> {"ruleString", "interval"}]
  /\ row = NULL /\ rule = NULL /\ kept = NULL /\ keptSnap = <<>>
  /\ generation = 0
  /\ NoCall
  /\ inputRefs = {}
  /\ inputSnap = <<>>
  /\ inputAfter = <<>>
  /\ ruleCalls = <<>>
  /\ keptResults = <<>>
  /\ called = "none"

\* The text of the rule input edited.
handleRuleStringChange ==
  /\ component.effects = {}
  /\ \E value \in RuleStrings \ {component.ruleString} :
       component' = [component EXCEPT !.ruleString = value, !.effects = {"ruleString"}]
  /\ called' = "handleRuleStringChange"
  /\ UNCHANGED <<heap, grid, row, rule, kept, keptSnap, inputRefs, inputSnap, inputAfter,
                 ruleCalls, generation, keptResults, args, returned, applied>>

\* The effect of ruleString: the text parsed, and the render that follows.
\* The interval effect is due again when isRunning or ruleFunction changed;
\* a rule function parsed anew is a new one.
ruleStringEffect ==
  /\ "ruleString" \in component.effects
  /\ \E parsed \in {parseBSRule(component.ruleString)} :
       component' =
         IF parsed.ok
         THEN [component EXCEPT !.ruleFunction = <<parsed.rule>>,
                                !.ruleError = null,
                                !.effects = {"interval"}]
         ELSE [component EXCEPT !.ruleFunction = null,
                                !.ruleError = <<parsed.error>>,
                                !.isRunning = FALSE,
                                !.effects =
                                  IF component.ruleFunction # null \/ component.isRunning
                                  THEN {"interval"}
                                  ELSE component.effects \ {"ruleString"}]
  /\ called' = "ruleStringEffect"
  /\ UNCHANGED <<heap, grid, row, rule, kept, keptSnap, inputRefs, inputSnap, inputAfter,
                 ruleCalls, generation, keptResults, args, returned, applied>>

\* The interval effect of the render c, with the cleanup of its previous
\* run: the interval is cleared, and set again if c is running with a rule
\* function.
runIntervalEffect(c) ==
  [c EXCEPT !.intervalRef = IF c.isRunning /\ c.ruleFunction # null
                            THEN <<[ruleFunction |-> c.ruleFunction]>>
                            ELSE null,
            !.effects = {}]

\* The interval effect of a render that an effect's state updates caused.
intervalEffect ==
  /\ component.effects = {"interval"}
  /\ component' = runIntervalEffect(component)
  /\ called' = "intervalEffect"
  /\ UNCHANGED <<heap, grid, row, rule, kept, keptSnap, inputRefs, inputSnap, inputAfter,
                 ruleCalls, generation, keptResults, args, returned, applied>>

\* The interval fires: the runSimulation it was set with runs, with the
\* ruleFunction of the render that made it.
customRunSimulation ==
  /\ component.intervalRef # null
  /\ generation < MaxTicks
  /\ IF component.intervalRef[1].ruleFunction = null
     THEN UNCHANGED <<heap, grid, rule, inputRefs, inputSnap, inputAfter, ruleCalls, generation>>
     ELSE /\ \E result \in {nextGeneration(heap, grid, component.intervalRef[1].ruleFunction[1])} :
               /\ grid' = result.ref
               /\ ruleCalls' = result.calls
               /\ heap' = Collect(result.heap, Roots(result.heap, {result.ref}, {}))
               /\ inputAfter' = Deref2D(result.heap, grid)
          /\ inputRefs' = Reach2D(heap, grid)
          /\ inputSnap' = Deref2D(heap, grid)
          /\ rule' = component.intervalRef[1].ruleFunction[1]
          /\ generation' = generation + 1
  /\ called' = "runSimulation"
  /\ UNCHANGED <<row, kept, keptSnap, keptResults, args, returned, applied, component>>

\* The Start/Stop button's handler.
customHandleStartStop ==
  /\ component.effects = {}
  /\ component' =
       IF component.ruleFunction # null
       THEN runIntervalEffect([component EXCEPT !.isRunning = ~component.isRunning])
       ELSE component
  /\ called' = "handleStartStop"
  /\ UNCHANGED <<heap, grid, row, rule, kept, keptSnap, inputRefs, inputSnap, inputAfter,
                 ruleCalls, generation, keptResults, args, returned, applied>>

\* The Reset button's handler: a new random grid of the same size.
customHandleReset ==
  /\ component.effects = {}
  /\ \E cells \in [Positions(Rows(Deref2D(heap, grid)), Cols(Deref2D(heap, grid))) -> BinaryStates] :
       \E created \in {createGrid(EmptyHeap, Rows(Deref2D(heap, grid)), Cols(Deref2D(heap, grid)), cells)} :
         /\ heap' = created.heap
         /\ grid' = created.ref
  /\ component' = runIntervalEffect([component EXCEPT !.isRunning = FALSE])
  /\ generation' = 0
  /\ called' = "handleReset"
  /\ UNCHANGED <<row, rule, kept, keptSnap, inputRefs, inputSnap, inputAfter,
                 ruleCalls, keptResults, args, returned, applied>>

NextCustomRule ==
  \/ handleRuleStringChange
  \/ ruleStringEffect
  \/ intervalEffect
  \/ customRunSimulation
  \/ customHandleStartStop
  \/ customHandleReset

SpecCustomRule == InitCustomRule /\ [][NextCustomRule]_vars

(***************************************************************************)
(* The animated elementary simulator.  Its rows hold the booleans the      *)
(* initializers return besides the numbers the rule returns.  component    *)
(* holds what it last rendered with, the timeout of the animation effect,  *)
(* given as the history, currentGeneration and ruleFunction the callback   *)
(* was made with, and whether the animation effect of that render has not  *)
(* run yet.  A user event is taken with the render it causes and the       *)
(* effects of that render; the effect of the render a timeout causes runs  *)
(* later, and before the next user event.                                  *)
(***************************************************************************)
\* The values false, true and undefined, written as numbers that are no
\* cell state.
jsFalse == -2
jsTrue == -3
undefined == -4

\* x || false
OrFalse(x) == IF x \in {undefined, jsFalse, 0, NaN} THEN jsFalse ELSE x

\* The number a value is multiplied as.
ToNumber(x) ==
  CASE x = jsFalse -> 0
    [] x = jsTrue -> 1
    [] x = undefined -> NaN
    [] OTHER -> x

\* arr[k]: undefined outside the array.
At(arr, k) == IF k >= 0 /\ k < Len(arr) THEN arr[k + 1] ELSE undefined

\* The rule function called with what the callback reads from the row.
ruleFunctionCall(r, left, center, right) ==
  IF NaN \in {ToNumber(left), ToNumber(center), ToNumber(right)}
  THEN NaN
  ELSE ElementaryRuleFunction(r, ToNumber(left), ToNumber(center), ToNumber(right))

\* Faulty variant: the edge cells computed like the others.
nextGridEdgesComputed(currentGrid, currentGeneration, r) ==
  [n \in 1..(currentGeneration + 1) |->
     ruleFunctionCall(r, OrFalse(At(currentGrid, n - 2)),
                         OrFalse(At(currentGrid, n - 1)),
                         OrFalse(At(currentGrid, n)))]

\* The row the timeout's callback creates.
nextGrid(currentGrid, currentGeneration, r) ==
  [n \in 1..(currentGeneration + 1) |->
     IF n - 1 = 0 \/ n - 1 = currentGeneration
     THEN jsFalse
     ELSE ruleFunctionCall(r, OrFalse(At(currentGrid, n - 2)),
                              OrFalse(At(currentGrid, n - 1)),
                              OrFalse(At(currentGrid, n)))]

\* The rule calls made while that row is created: one for each inner cell.
nextGridCalls(currentGrid, currentGeneration) ==
  [n \in 1..(IF currentGeneration >= 2 THEN currentGeneration - 1 ELSE 0) |->
     << OrFalse(At(currentGrid, n - 1)), OrFalse(At(currentGrid, n)),
        OrFalse(At(currentGrid, n + 1)) >>]

RuleNumbers == {0, 1, 30, 90, 110, 184, 255}

\* createOneDGrid(size, () => false)
emptyGrid(size) == [n \in 1..size |-> jsFalse]

\* createOneDGrid(1, (i) => i === 0)
initialGrid == <<jsTrue>>

\* The animation effect of the render c, with the cleanup of its previous
\* run: the timeout is cleared, and set again if c is animating below
\* numGenerations; at numGenerations the animation is stopped, and the run
\* of the effect after that does nothing.
runAnimationEffect(c) ==
  [c EXCEPT !.timer = IF c.isAnimating /\ c.currentGeneration < c.numGenerations
                      THEN <<[history |-> c.history,
                              currentGeneration |-> c.currentGeneration,
                              ruleFunction |-> c.ruleFunction]>>
                      ELSE <<>>,
            !.isAnimating = IF c.currentGeneration >= c.numGenerations
                            THEN FALSE
                            ELSE c.isAnimating,
            !.effects = {}]

\* The component mounted and its effects run: the history is the empty row
\* of numGenerations cells.
InitAnimation ==
  /\ NoGrid
  /\ NoCall
  /\ called = "none"
  /\ \E initialGenerations \in 1..MaxAnimation, initialRuleNumber \in RuleNumbers :
       component = [numGenerations    |-> initialGenerations,
                    ruleNumber        |-> initialRuleNumber,
                    history           |-> <<emptyGrid(initialGenerations)>>,
                    ruleFunction      |-> getElementaryRule(initialRuleNumber).rule,
                    error             |-> <<>>,
                    isAnimating       |-> FALSE,
                    currentGeneration |-> 0,
                    timer             |-> <<>>,
                    effects           |-> {}]

\* generateHistory of the render c, in the render the handler h left.
generateHistoryOf(c, h) ==
  IF getElementaryRule(c.ruleNumber).ok
  THEN [h EXCEPT !.ruleFunction = getElementaryRule(c.ruleNumber).rule,
                 !.history = <<initialGrid>>,
                 !.currentGeneration = 0,
                 !.isAnimating = TRUE,
                 !.error = <<>>]
  ELSE [h EXCEPT !.error = <<getElementaryRule(c.ruleNumber).error>>,
                 !.history = <<>>]

\* The Generate button.
generateHistory ==
  /\ component.effects = {}
  /\ component' = runAnimationEffect(generateHistoryOf(component, component))
  /\ called' = "generateHistory"
  /\ UNCHANGED <<heap, grid, row, rule, kept, keptSnap, inputRefs, inputSnap, inputAfter,
                 ruleCalls, generation, keptResults, args, returned, applied>>

\* A rule chosen from the list or typed, given as the number parseInt makes
\* of it: in range, it is stored and generateHistory is called, which still
\* has the ruleNumber of the render the handler belongs to.
handleRuleChange ==
  /\ component.effects = {}
  /\ \E num \in RuleNumbers \cup {-1, 256} :
       component' =
         IF num >= 0 /\ num <= 255
         THEN runAnimationEffect(
                generateHistoryOf(component,
                                  [component EXCEPT !.ruleNumber = num, !.error = <<>>]))
         ELSE [component EXCEPT !.error = <<"Rule must be 0-255.">>]
  /\ called' = "handleRuleChange"
  /\ UNCHANGED <<heap, grid, row, rule, kept, keptSnap, inputRefs, inputSnap, inputAfter,
                 ruleCalls, generation, keptResults, args, returned, applied>>

\* The Reset button.
animationHandleReset ==
  /\ component.effects = {}
  /\ component' = runAnimationEffect([component EXCEPT !.isAnimating = FALSE,
                                                        !.currentGeneration = 0,
                                                        !.history = <<emptyGrid(1)>>,
                                                        !.error = <<>>])
  /\ called' = "handleReset"
  /\ UNCHANGED <<heap, grid, row, rule, kept, keptSnap, inputRefs, inputSnap, inputAfter,
                 ruleCalls, generation, keptResults, args, returned, applied>>

\* The number of generations edited: the effects of the render run, the
\* animation effect with the history as it is, and the render with the
\* empty row the other effect sets follows; its animation effect is due.
handleGenerationsChange ==
  /\ component.effects = {}
  /\ \E newGenerations \in (1..MaxAnimation) \ {component.numGenerations} :
       component' =
         [runAnimationEffect([component EXCEPT !.numGenerations = newGenerations])
            EXCEPT !.history = <<emptyGrid(newGenerations)>>,
                   !.effects = {"animation"}]
  /\ called' = "handleGenerationsChange"
  /\ UNCHANGED <<heap, grid, row, rule, kept, keptSnap, inputRefs, inputSnap, inputAfter,
                 ruleCalls, generation, keptResults, args, returned, applied>>

\* The timeout fires: the callback makes the next row from the last row of
\* the history it was made with and appends it to the history; the
\* animation effect of the render that follows is due.
animationTimeout ==
  /\ component.timer # <<>>
  /\ Len(component.timer[1].history) > 0
  /\ \E t \in {component.timer[1]} :
       \E currentGrid \in {t.history[Len(t.history)]} :
         /\ args' = [currentGrid |-> currentGrid, currentGeneration |-> t.currentGeneration]
         /\ returned' = nextGrid(currentGrid, t.currentGeneration, t.ruleFunction)
         /\ ruleCalls' = nextGridCalls(currentGrid, t.currentGeneration)
         /\ component' =
              [component EXCEPT
                 !.history = Append(component.history,
                                    nextGrid(currentGrid, t.currentGeneration, t.ruleFunction)),
                 !.currentGeneration = component.currentGeneration + 1,
                 !.timer = <<>>,
                 !.effects = {"animation"}]
  /\ called' = "animationTimeout"
  /\ UNCHANGED <<heap, grid, row, rule, kept, keptSnap, inputRefs, inputSnap, inputAfter,
                 generation, keptResults, applied>>

\* The animation effect of a render that a timeout or an effect caused.
animationEffect ==
  /\ component.effects = {"animation"}
  /\ component' = runAnimationEffect(component)
  /\ called' = "animationEffect"
  /\ UNCHANGED <<heap, grid, row, rule, kept, keptSnap, inputRefs, inputSnap, inputAfter,
                 ruleCalls, generation, keptResults, args, returned, applied>>

NextAnimation ==
  \/ generateHistory
  \/ handleRuleChange
  \/ animationHandleReset
  \/ handleGenerationsChange
  \/ animationTimeout
  \/ animationEffect

SpecAnimation == InitAnimation /\ [][NextAnimation]_vars

(***************************************************************************)
(* Properties of the steppers                                              *)
(***************************************************************************)
\* The grid the 2D caller holds, as cell states.
Current2D == Deref2D(heap, grid)

Stepped2D == called = "nextGeneration" /\ Rows(inputSnap) > 0 /\ Cols(inputSnap) > 0

ClaimedOffsets ==
  << <<-1, -1>>, <<-1, 0>>, <<-1, 1>>, <<0, -1>>, <<0, 1>>, <<1, -1>>, <<1, 0>>, <<1, 1>> >>

\* The 8 states of g around (i, j), 0-based, in the claimed order.
ClaimedNeighbors(g, i, j) ==
  [n \in 1..8 |-> g[((i + ClaimedOffsets[n][1] + Rows(g)) % Rows(g)) + 1]
                   [((j + ClaimedOffsets[n][2] + Cols(g)) % Cols(g)) + 1]]

\* The rule call nextGeneration made for cell (i, j) of a grid cols wide.
CallFor(i, j, cols) == ruleCalls[i * cols + j + 1]

\* C1: after nextGeneration on a grid with rows > 0 and cols > 0, cell (i,j)
\* of the result is rule(neighbors, input[i][j]) where neighbors are the 8
\* states of the INPUT grid at the wrapped offsets (-1,-1),(-1,0),(-1,1),
\* (0,-1),(0,1),(1,-1),(1,0),(1,1), in that order; the rule was called with
\* exactly that array.
C1_CellsFromInputNeighborhood ==
  Stepped2D =>
    /\ Len(ruleCalls) = Rows(inputSnap) * Cols(inputSnap)
    /\ \A i \in 0..(Rows(inputSnap) - 1), j \in 0..(Cols(inputSnap) - 1) :
         /\ CallFor(i, j, Cols(inputSnap)).neighbors = ClaimedNeighbors(inputSnap, i, j)
         /\ CallFor(i, j, Cols(inputSnap)).currentState = inputSnap[i + 1][j + 1]
         /\ Current2D[i + 1][j + 1] =
              RuleFunction(rule, ClaimedNeighbors(inputSnap, i, j), inputSnap[i + 1][j + 1])

C1_Witness ==
  /\ Stepped2D
  /\ Rows(inputSnap) = 3 /\ Cols(inputSnap) = 3
  /\ rule.kind = "neighborAt"
  /\ Current2D # inputSnap
  /\ \E i \in 1..3, j \in 1..3 : Current2D[i][j] = 1

\* C2: nextGeneration on a rows x cols grid, rows > 0 and cols > 0, returns
\* exactly rows rows of exactly cols cells each; so the grid held after any
\* number of steps has the dimensions of a generation kept earlier.
C2_DimensionsPreserved ==
  /\ Stepped2D =>
       /\ Rows(Current2D) = Rows(inputSnap)
       /\ \A i \in 1..Rows(Current2D) : Len(Current2D[i]) = Cols(inputSnap)
  /\ (grid # NULL /\ kept # NULL /\ Rows(keptSnap) > 0 /\ Cols(keptSnap) > 0) =>
       /\ Rows(Current2D) = Rows(keptSnap)
       /\ \A i \in 1..Rows(Current2D) : Len(Current2D[i]) = Cols(keptSnap)

C2_Witness ==
  /\ Stepped2D
  /\ kept # NULL /\ kept # grid /\ inputSnap # keptSnap
  /\ Rows(keptSnap) = 2 /\ Cols(keptSnap) = 3
  /\ Rows(Current2D) = 2 /\ Cols(Current2D) = 3

\* C3: nextGeneration and nextOneDGeneration leave their input as it was
\* (every cell holds the value it held before the call), the result is made
\* of newly created arrays none of which belongs to the input, and a
\* generation the caller kept reads the same after any number of later steps.
C3_InputNeverMutated ==
  /\ called # "none" => inputAfter = inputSnap
  /\ called = "nextGeneration" => Reach2D(heap, grid) \cap inputRefs = {}
  /\ called = "nextOneDGeneration" => Reach1D(row) \cap inputRefs = {}
  /\ (kept # NULL /\ grid # NULL) => Deref2D(heap, kept) = keptSnap
  /\ (kept # NULL /\ row # NULL) => heap[kept] = keptSnap

C3_Witness ==
  /\ Stepped2D
  /\ kept # NULL /\ kept # grid
  /\ kept \notin inputRefs
  /\ Current2D # keptSnap /\ Current2D # inputSnap
  /\ \E i \in 1..Rows(keptSnap) : 1 \in StatesOf(keptSnap[i])

Ones(arr) == Cardinality({n \in DOMAIN arr : arr[n] = 1})

\* The input of the latest call is all dead except one live cell at (r, c).
SingleLiveAt(r, c) ==
  \A i \in 0..(Rows(inputSnap) - 1), j \in 0..(Cols(inputSnap) - 1) :
    inputSnap[i + 1][j + 1] = (IF i = r /\ j = c THEN 1 ELSE 0)

\* C4: on a grid with rows >= 3 and cols >= 3 that is dead except for one
\* live cell at (r,c), each of the 8 cells at a wrapped offset (dx,dy) # (0,0)
\* from (r,c) is given a neighbor array containing exactly one 1, and the live
\* cell is given an array containing none: coordinates beyond an edge wrap
\* around by modulo.
C4_ToroidalWrap ==
  (Stepped2D /\ Rows(inputSnap) >= 3 /\ Cols(inputSnap) >= 3) =>
    \A r \in 0..(Rows(inputSnap) - 1), c \in 0..(Cols(inputSnap) - 1) :
      SingleLiveAt(r, c) =>
        /\ Ones(CallFor(r, c, Cols(inputSnap)).neighbors) = 0
        /\ \A dx \in {-1, 0, 1}, dy \in {-1, 0, 1} :
             ~(dx = 0 /\ dy = 0) =>
               Ones(CallFor((r + dx + Rows(inputSnap)) % Rows(inputSnap),
                            (c + dy + Cols(inputSnap)) % Cols(inputSnap),
                            Cols(inputSnap)).neighbors) = 1

\* The 3x3 case of the claim: live cell at (0,0), cell (2,2) sees one.
C4_Witness ==
  /\ Stepped2D
  /\ Rows(inputSnap) = 3 /\ Cols(inputSnap) = 3
  /\ SingleLiveAt(0, 0)
  /\ Ones(CallFor(2, 2, 3).neighbors) = 1

\* C5: a grid holding only a standard glider at (r,c), anywhere on the torus
\* (also across the wrap boundary), holds after every four steps of
\* nextGeneration with conwayRule exactly the same glider one cell further
\* down and one cell further right (modulo the grid size), and nothing else.
C5_GliderTranslates ==
  \A r \in 0..(GliderRows - 1), c \in 0..(GliderCols - 1) :
    (keptSnap = GliderGrid(r, c, GliderRows, GliderCols) /\ generation % 4 = 0) =>
      Deref2D(heap, grid) =
        GliderGrid((r + generation \div 4) % GliderRows,
                   (c + generation \div 4) % GliderCols, GliderRows, GliderCols)

\* The glider that started across the corner of the grid, four steps later.
C5_Witness ==
  /\ generation = 4
  /\ keptSnap = GliderGrid(GliderRows - 1, GliderCols - 2, GliderRows, GliderCols)
  /\ Deref2D(heap, grid) = GliderGrid(0, GliderCols - 1, GliderRows, GliderCols)

(***************************************************************************)
(* Properties of the 2D rule functions                                     *)
(***************************************************************************)
\* C6: parseBSRule("B3/S23") returns a rule that gives, for every array of 8
\* neighbor states and every current state (integer codes), what conwayRule
\* gives.
C6_ParsedConwayEqualsConway ==
  called = "parseBSRule(B3/S23)" =>
    returned = conwayRule(args.neighbors, args.currentState)

\* The birth/survival decision on the number of neighbors in state 1.
BirthSurvival(birth, survival, neighbors, currentState) ==
  IF currentState = 1
  THEN (IF Ones(neighbors) \in survival THEN 1 ELSE 0)
  ELSE (IF Ones(neighbors) \in birth THEN 1 ELSE 0)

BinaryArgs == StatesOf(args.neighbors) \subseteq {0, 1} /\ args.currentState \in {0, 1}

\* C7: on neighbor arrays over {0,1} and current states in {0,1}, conwayRule
\* decides by survival {2,3} and birth {3}, seedsRule by survival {} and
\* birth {2}, highLifeRule by survival {2,3} and birth {3,6}.
C7_LibraryRulesBirthSurvival ==
  BinaryArgs =>
    /\ called = "conwayRule" =>
         returned = BirthSurvival({3}, {2, 3}, args.neighbors, args.currentState)
    /\ called = "seedsRule" =>
         returned = BirthSurvival({2}, {}, args.neighbors, args.currentState)
    /\ called = "highLifeRule" =>
         returned = BirthSurvival({3, 6}, {2, 3}, args.neighbors, args.currentState)

\* A dead cell with six live neighbors is born under highLifeRule.
C7_Witness ==
  /\ called = "highLifeRule"
  /\ BinaryArgs
  /\ args.currentState = 0
  /\ Ones(args.neighbors) = 6
  /\ returned = 1

(***************************************************************************)
(* Properties of the rule constructors                                     *)
(***************************************************************************)
RECURSIVE Pow2(_)
Pow2(n) == IF n = 0 THEN 1 ELSE 2 * Pow2(n - 1)

\* Bit number n of code, the least significant bit being bit 0.
Bit(code, n) == (code \div Pow2(n)) % 2

\* The truth table of Rule 30, indexed by 4*left + 2*center + right.
Rule30Table == [n \in 0..7 |-> IF n \in {1, 2, 3, 4} THEN 1 ELSE 0]

\* C8: for every code in 0..255 and left, center, right in {0,1}, the rule
\* getElementaryRule(code) returns bit number 4*left + 2*center + right of
\* code (bit 0 the least significant) as the integer 0 or 1; for code 30 that
\* is 111->0, 110->0, 101->0, 100->1, 011->1, 010->1, 001->1, 000->0.
C8_WolframNumbering ==
  (called = "ruleFunction" /\ {args.left, args.center, args.right} \subseteq {0, 1}) =>
    /\ applied[1] \in {0, 1}
    /\ applied[1] = Bit(args.ruleNumber, 4 * args.left + 2 * args.center + args.right)
    /\ args.ruleNumber = 30 =>
         applied[1] = Rule30Table[4 * args.left + 2 * args.center + args.right]

\* Rule 30 on the neighborhood 100 gives 1.
C8_Witness ==
  /\ called = "ruleFunction"
  /\ args.ruleNumber = 30
  /\ args.left = 1 /\ args.center = 0 /\ args.right = 0
  /\ applied = <<1>>

\* C9: getElementaryRule(code) raises the range error, and returns no rule,
\* for every integer code < 0 or > 255; for every code in 0..255 it returns
\* a rule function and raises nothing.
C9_RangeError ==
  called = "getElementaryRule" =>
    /\ (args.ruleNumber < 0 \/ args.ruleNumber > 255) =>
         /\ ~returned.ok
         /\ returned.error = "Rule number must be between 0 and 255."
         /\ "rule" \notin DOMAIN returned
    /\ args.ruleNumber \in 0..255 =>
         /\ returned.ok
         /\ returned.rule.kind = "elementary"
         /\ Len(returned.rule.binaryRule) = 8

\* Just beyond the upper edge: 256 raises the error.
C9_Witness ==
  /\ called = "getElementaryRule"
  /\ args.ruleNumber = 256
  /\ ~returned.ok

\* Case folding, for comparing characters case-insensitively.
Fold(c) ==
  CASE c = "B" -> "b"
    [] c = "S" -> "s"
    [] c = "X" -> "x"
    [] c = "U+017F" -> "s"
    [] OTHER -> c

Digits0to8 == {"0", "1", "2", "3", "4", "5", "6", "7", "8"}

\* str has, as a whole and case-insensitively, the shape B<digits>/S<digits>
\* with the digits drawn from 0-8.
HasBSShape(str) ==
  \E slash \in 2..(Len(str) - 1) :
    /\ Fold(str[1]) = "b"
    /\ str[slash] = "/"
    /\ Fold(str[slash + 1]) = "s"
    /\ \A n \in 2..(slash - 1) : str[n] \in Digits0to8
    /\ \A n \in (slash + 2)..Len(str) : str[n] \in Digits0to8

\* C10: parseBSRule raises an error and returns no rule for every string that
\* does not, as a whole and case-insensitively, have the shape
\* B<digits>/S<digits> with digits from 0-8; "X3/S23", "B9/S23" and "B3S23"
\* all fail, and no malformed string yields a rule.
C10_MalformedRejected ==
  called = "parseBSRule" =>
    /\ ~HasBSShape(args.ruleString) =>
         ~returned.ok /\ "rule" \notin DOMAIN returned
    /\ args.ruleString \in { <<"X", "3", "/", "S", "2", "3">>,
                             <<"B", "9", "/", "S", "2", "3">>,
                             <<"B", "3", "S", "2", "3">> } => ~returned.ok

\* The digit 9 is refused.
C10_Witness ==
  /\ called = "parseBSRule"
  /\ args.ruleString = <<"B", "9", "/", "S", "2", "3">>
  /\ ~HasBSShape(args.ruleString)
  /\ ~returned.ok

\* str has the shape B<digits>/S<digits>, the letters in either case.
HasPlainBSShape(str) ==
  \E slash \in 2..(Len(str) - 1) :
    /\ str[1] \in {"B", "b"}
    /\ str[slash] = "/"
    /\ str[slash + 1] \in {"S", "s"}
    /\ \A n \in 2..(slash - 1) : str[n] \in Digits0to8
    /\ \A n \in (slash + 2)..Len(str) : str[n] \in Digits0to8

SlashAt(str) == CHOOSE n \in 1..Len(str) : str[n] = "/"

DigitValue(c) ==
  CHOOSE d \in 0..8 : <<"0", "1", "2", "3", "4", "5", "6", "7", "8">>[d + 1] = c

\* The digits written after the B, and those written after the S.
BDigits(str) == {DigitValue(str[n]) : n \in 2..(SlashAt(str) - 1)}
SDigits(str) == {DigitValue(str[n]) : n \in (SlashAt(str) + 2)..Len(str)}

\* C11: for every string of the shape B<digits>/S<digits>, letters in either
\* case, digit lists possibly empty, digits 0-8 with duplicates allowed,
\* parseBSRule succeeds, and the rule it returns gives 1 for a cell in state 1
\* iff the number of neighbors in state exactly 1 is one of the S digits, 1
\* for a cell in any other state iff that number is one of the B digits, and
\* 0 otherwise.
C11_ShapedStringsParse ==
  HasPlainBSShape(args.ruleString) =>
    /\ called = "parseBSRule" => returned.ok
    /\ called = "parsedRule" =>
         applied[1] = BirthSurvival(BDigits(args.ruleString), SDigits(args.ruleString),
                                    args.neighbors, args.currentState)

\* Lower case, a duplicate digit, and neighbors in a state other than 0 and 1:
\* three neighbors in state 1 among five in state 2 give birth.
C11_Witness ==
  /\ called = "parsedRule"
  /\ args.ruleString = <<"b", "3", "6", "/", "s", "2", "3">>
  /\ Ones(args.neighbors) = 3 /\ 2 \in StatesOf(args.neighbors)
  /\ args.currentState = 2
  /\ applied = <<1>>

\* C12: forestFireRule returns BURNT whenever the current state is BURNING,
\* whatever the neighbors, the ignition probability and the value Math.random
\* would return; and a cell that is BURNING in the grid given to
\* nextGeneration is BURNT in the grid returned.
C12_BurningBurnsOut ==
  /\ (called = "forestFireRule" /\ args.currentState = FIRE_STATES.BURNING) =>
       returned = FIRE_STATES.BURNT
  /\ (Stepped2D /\ rule.kind = "forestFire") =>
       \A i \in 1..Rows(inputSnap), j \in 1..Cols(inputSnap) :
         inputSnap[i][j] = FIRE_STATES.BURNING => Current2D[i][j] = FIRE_STATES.BURNT

\* A burning cell beside a tree, ignition certain: the fire moves on and the
\* cell that burned is burnt.
C12_Witness ==
  /\ Stepped2D /\ rule.kind = "forestFire"
  /\ rule.ignitionProbability = 100
  /\ inputSnap = << <<FIRE_STATES.BURNING, FIRE_STATES.TREE, FIRE_STATES.EMPTY>> >>
  /\ Current2D = << <<FIRE_STATES.BURNT, FIRE_STATES.BURNING, FIRE_STATES.EMPTY>> >>

\* C13: stepping with simpleCrystalRule, whatever the threshold and the
\* starting grid of EMPTY and CRYSTAL cells, a cell that is CRYSTAL in the
\* grid given to nextGeneration is CRYSTAL in the grid returned, and a cell
\* that is CRYSTAL in a generation kept earlier is CRYSTAL in every
\* generation held after it.
C13_CrystalNeverReverts ==
  /\ Stepped2D =>
       \A i \in 1..Rows(inputSnap), j \in 1..Cols(inputSnap) :
         inputSnap[i][j] = CRYSTAL_STATES.CRYSTAL =>
           Current2D[i][j] = CRYSTAL_STATES.CRYSTAL
  /\ kept # NULL =>
       \A i \in 1..Rows(keptSnap), j \in 1..Cols(keptSnap) :
         keptSnap[i][j] = CRYSTAL_STATES.CRYSTAL =>
           Current2D[i][j] = CRYSTAL_STATES.CRYSTAL

\* A crystal that has grown in two steps or more since the generation kept,
\* the kept crystal cells still crystal.
C13_Witness ==
  /\ Stepped2D /\ kept # NULL
  /\ inputSnap # keptSnap /\ Current2D # inputSnap
  /\ \E i \in 1..Rows(keptSnap), j \in 1..Cols(keptSnap) :
       keptSnap[i][j] = CRYSTAL_STATES.CRYSTAL /\ Current2D[i][j] = CRYSTAL_STATES.CRYSTAL
  /\ \E i \in 1..Rows(keptSnap), j \in 1..Cols(keptSnap) :
       keptSnap[i][j] = CRYSTAL_STATES.EMPTY /\ inputSnap[i][j] = CRYSTAL_STATES.EMPTY
       /\ Current2D[i][j] = CRYSTAL_STATES.CRYSTAL

\* C14: with conwayRule, seedsRule, highLifeRule or a rule parseBSRule
\* returned, all calls of nextGeneration on the same input grid return grids
\* that are cell for cell the same, whatever stepping calls were made on
\* other grids in between.
C14_SameInputSameOutput ==
  \A m \in 1..Len(keptResults), n \in 1..Len(keptResults) :
    keptResults[m].grid = keptResults[n].grid

\* The kept grid stepped as the first call and again as the fourth, the two
\* calls in between made on later generations, every one of them changing
\* the grid.
C14_Witness ==
  /\ Len(keptResults) = 2
  /\ keptResults[1].call = 1 /\ keptResults[2].call = 4
  /\ rule.kind = "parsed"
  /\ keptResults[1].grid # keptSnap
  /\ inputSnap = keptSnap
  /\ Current2D = keptResults[1].grid

\* The row the 1D caller holds, as cell states.
Current1D == heap[row]

\* C15: nextOneDGeneration on a non-empty row of length size returns a row of
\* length size whose cell i is rule(row[(i-1+size)%size], row[i],
\* row[(i+1)%size]), the rule called with just these; cell 0's left neighbor
\* is the last cell, the last cell's right neighbor is cell 0, and a row of
\* one cell has that cell as its own left and right neighbor.
C15_OneDStepWraps ==
  (called = "nextOneDGeneration" /\ Len(inputSnap) > 0) =>
    LET size == Len(inputSnap)
    IN  /\ Len(Current1D) = size
        /\ Len(ruleCalls) = size
        /\ \A i \in 0..(size - 1) :
             /\ ruleCalls[i + 1] = << inputSnap[((i - 1 + size) % size) + 1],
                                      inputSnap[i + 1],
                                      inputSnap[((i + 1) % size) + 1] >>
             /\ Current1D[i + 1] =
                  ElementaryRuleFunction(rule, inputSnap[((i - 1 + size) % size) + 1],
                                         inputSnap[i + 1],
                                         inputSnap[((i + 1) % size) + 1])
        /\ ruleCalls[1][1] = inputSnap[size]
        /\ ruleCalls[size][3] = inputSnap[1]
        /\ size = 1 => ruleCalls[1] = <<inputSnap[1], inputSnap[1], inputSnap[1]>>

\* Rule 30 on 1000: the last cell comes alive from cell 0 on its right, and
\* cell 1 from cell 0 on its left.
C15_Witness ==
  /\ called = "nextOneDGeneration"
  /\ rule = getElementaryRule(30).rule
  /\ inputSnap = <<1, 0, 0, 0>>
  /\ Current1D = <<1, 1, 0, 1>>

\* C17: nextGeneration returns a grid of zero rows when its input has zero
\* rows or rows of zero width, nextOneDGeneration returns an empty row when
\* its input is empty, and neither calls the rule.
C17_EmptyInputEmptyResult ==
  /\ (called = "nextGeneration" /\ (Rows(inputSnap) = 0 \/ Cols(inputSnap) = 0)) =>
       /\ Current2D = <<>>
       /\ ruleCalls = <<>>
  /\ (called = "nextOneDGeneration" /\ Len(inputSnap) = 0) =>
       /\ Current1D = <<>>
       /\ ruleCalls = <<>>

\* Two rows of zero width go in, a grid of zero rows comes out.
C17_Witness ==
  /\ called = "nextGeneration"
  /\ inputSnap = << <<>>, <<>> >>
  /\ Current2D = <<>>
  /\ ruleCalls = <<>>

\* C16: a rule function that getElementaryRule or parseBSRule returned,
\* called with any integer cell states, also states other than 0 and 1,
\* raises nothing and returns 0 or 1; the range, format and digit errors are
\* raised when the rule is constructed and never by a call of the rule.
C16_ConstructedRuleReturnsBit ==
  called \in {"ruleFunction", "parsedRule"} => applied[1] \in {0, 1}

\* C18: the catalog's Diamoeba rule has survival set {5,6,7,8} and birth set
\* {3,5,6,7,8}: for every number n in 0..8 of live neighbors a live cell is
\* alive next iff n is in {5,6,7,8} and a dead cell is alive next iff n is in
\* {3,5,6,7,8}; a dead cell with exactly 4 live neighbors stays dead.
C18_DiamoebaSets ==
  (called = "Diamoeba" /\ BinaryArgs) =>
    returned = BirthSurvival({3, 5, 6, 7, 8}, {5, 6, 7, 8}, args.neighbors, args.currentState)

\* C19: the catalog's Seeds and Serviettes rules have an empty survival set
\* and birth set {2}: a live cell is dead next for every number of live
\* neighbors, 2 included, and a dead cell is alive next iff it has exactly 2.
C19_SeedsServiettesSets ==
  (called \in {"Seeds", "Serviettes"} /\ BinaryArgs) =>
    returned = BirthSurvival({2}, {}, args.neighbors, args.currentState)

ThresholdOf(a) == IF "threshold" \in DOMAIN a THEN a.threshold ELSE 3

\* C21: simpleCrystalRule(neighbors, state, threshold) turns an EMPTY cell
\* into CRYSTAL iff the number of neighbors in state CRYSTAL is at least
\* threshold (3 when none is given) and otherwise leaves it EMPTY; a CRYSTAL
\* cell stays CRYSTAL for every neighbor array and threshold.
C21_CrystalRule ==
  called = "simpleCrystalRule" =>
    /\ args.currentState = CRYSTAL_STATES.EMPTY =>
         returned = (IF Ones(args.neighbors) >= ThresholdOf(args)
                     THEN CRYSTAL_STATES.CRYSTAL ELSE CRYSTAL_STATES.EMPTY)
    /\ args.currentState = CRYSTAL_STATES.CRYSTAL => returned = CRYSTAL_STATES.CRYSTAL

\* No threshold given and exactly three crystal neighbors: the cell turns.
C21_Witness ==
  /\ called = "simpleCrystalRule"
  /\ "threshold" \notin DOMAIN args
  /\ Ones(args.neighbors) = 3
  /\ args.currentState = CRYSTAL_STATES.EMPTY
  /\ returned = CRYSTAL_STATES.CRYSTAL

\* C22: forestFireRule on a cell that is not BURNING: a TREE with at least
\* one BURNING neighbor becomes BURNING when the draw is below
\* ignitionProbability and stays TREE otherwise, and nothing else; a TREE
\* with no BURNING neighbor, an EMPTY cell and a BURNT cell come back
\* unchanged for every neighbor array and every draw.  So a cell BURNING
\* after a step was a TREE with a BURNING neighbor before it.
C22_OnlyTreesBesideFireIgnite ==
  /\ (called = "forestFireRule" /\ args.currentState # FIRE_STATES.BURNING) =>
       IF /\ args.currentState = FIRE_STATES.TREE
          /\ FIRE_STATES.BURNING \in StatesOf(args.neighbors)
       THEN /\ returned \in {FIRE_STATES.BURNING, FIRE_STATES.TREE}
            /\ returned = FIRE_STATES.BURNING <=>
                 args.random[1] < args.ignitionProbability
       ELSE returned = args.currentState
  /\ (Stepped2D /\ rule.kind = "forestFire") =>
       \A i \in 0..(Rows(inputSnap) - 1), j \in 0..(Cols(inputSnap) - 1) :
         LET before == inputSnap[i + 1][j + 1]
             after  == Current2D[i + 1][j + 1]
             beside == FIRE_STATES.BURNING \in StatesOf(ClaimedNeighbors(inputSnap, i, j))
         IN  /\ after = FIRE_STATES.BURNING => (before = FIRE_STATES.TREE /\ beside)
             /\ (before = FIRE_STATES.TREE /\ beside) =>
                  after \in {FIRE_STATES.BURNING, FIRE_STATES.TREE}
             /\ (before # FIRE_STATES.BURNING /\ ~(before = FIRE_STATES.TREE /\ beside)) =>
                  after = before

\* Two trees beside one fire, the draws falling either side of the
\* probability: one ignites, the other does not.
C22_Witness ==
  /\ Stepped2D /\ rule.kind = "forestFire"
  /\ rule.ignitionProbability = 40
  /\ inputSnap = << <<FIRE_STATES.TREE, FIRE_STATES.BURNING, FIRE_STATES.TREE>> >>
  /\ Current2D = << <<FIRE_STATES.BURNING, FIRE_STATES.BURNT, FIRE_STATES.TREE>> >>

\* The latest nextGeneration call returned a grid of the dimensions of its
\* input: as many rows, each as long as the input's row.
SameDimensions ==
  /\ Rows(Current2D) = Rows(inputSnap)
  /\ \A i \in 1..Rows(Current2D) : Len(Current2D[i]) = Len(inputSnap[i])

\* C23: for every rectangular input grid, grids of zero rows and grids whose
\* rows have zero width included, the grid nextGeneration returns has the
\* dimensions of the input: the same number of rows, each of the length of
\* the input's rows.
C23_DimensionsAlwaysPreserved ==
  called = "nextGeneration" => SameDimensions

\* C23 as amended: the grid nextGeneration returns has the dimensions of the
\* input when the input has at least one row and one column or has zero
\* rows; for an input of one or more rows of zero width it has zero rows.
C23_DimensionsPreservedUnlessZeroWidth ==
  called = "nextGeneration" =>
    IF Rows(inputSnap) > 0 /\ Cols(inputSnap) = 0
    THEN Rows(Current2D) = 0
    ELSE SameDimensions

\* Three rows of zero width go in and no row comes out.
C23_Witness ==
  /\ called = "nextGeneration"
  /\ inputSnap = << <<>>, <<>>, <<>> >>
  /\ Rows(Current2D) = 0
  /\ ~SameDimensions

\* C24: the digit-validation error of parseBSRule cannot be reached: for
\* every input string parseBSRule either raises the format error or returns
\* a rule function, and no input string makes it raise the error about
\* invalid digits.
C24_DigitErrorUnreachable ==
  called = "parseBSRule" =>
    IF returned.ok
    THEN returned.rule.kind = "parsed"
    ELSE /\ returned.error = "Invalid B/S rule format."
         /\ returned.error # "Invalid digits in B/S rule."

\* A 9 among the digits is refused by the format test, before any digit is
\* looked at.
C24_Witness ==
  /\ called = "parseBSRule"
  /\ args.ruleString = <<"B", "/", "S", "9">>
  /\ ~returned.ok
  /\ returned.error = "Invalid B/S rule format."

\* The moves a cell may make in one step: EMPTY stays EMPTY, a TREE stays or
\* burns, BURNING turns BURNT, BURNT stays BURNT.
FireMoves ==
  { <<FIRE_STATES.EMPTY, FIRE_STATES.EMPTY>>, <<FIRE_STATES.TREE, FIRE_STATES.TREE>>,
    <<FIRE_STATES.TREE, FIRE_STATES.BURNING>>, <<FIRE_STATES.BURNING, FIRE_STATES.BURNT>>,
    <<FIRE_STATES.BURNT, FIRE_STATES.BURNT>> }

\* Some cell of g is burning.
HasFire(g) == \E i \in 1..Rows(g) : FIRE_STATES.BURNING \in StatesOf(g[i])

\* C25: from any grid of fire states with T trees, stepping with
\* forestFireRule under any outcomes of the draws, every cell moves only
\* along EMPTY -> EMPTY and TREE -> BURNING -> BURNT; after T + 1 steps or
\* more no cell is BURNING; and a step from a grid with no BURNING cell
\* returns the same grid.
C25_FireDiesOut ==
  Stepped2D =>
    /\ \A i \in 1..Rows(inputSnap), j \in 1..Cols(inputSnap) :
         <<inputSnap[i][j], Current2D[i][j]>> \in FireMoves
    /\ generation >= Trees(keptSnap) + 1 => ~HasFire(Current2D)
    /\ ~HasFire(inputSnap) => Current2D = inputSnap

\* The slowest fire: two trees, one igniting per step, the last still
\* burning after as many steps as there were trees and out one step later.
C25_Witness ==
  /\ Stepped2D
  /\ Trees(keptSnap) = 2
  /\ generation = 3
  /\ HasFire(inputSnap)
  /\ ~HasFire(Current2D)

\* The grid of the given size with one CRYSTAL cell, at (rows/2, cols/2)
\* rounded down, and every other cell EMPTY.
OneSeed(rows, cols) ==
  [i \in 1..rows |-> [j \in 1..cols |->
     IF 2 * (i - 1) \in {rows - 1, rows} /\ 2 * (j - 1) \in {cols - 1, cols}
     THEN CRYSTAL_STATES.CRYSTAL ELSE CRYSTAL_STATES.EMPTY]]

\* C26: from crystalSeedInitializer(rows, cols) with rows >= 3 and cols >= 3,
\* stepping with simpleCrystalRule and a threshold of 2 or more, every step
\* returns the grid it was given: every EMPTY cell has at most one CRYSTAL
\* neighbor, and the crystal stays the one cell at (floor(rows/2),
\* floor(cols/2)).
C26_SingleSeedNeverGrows ==
  (Rows(keptSnap) >= 3 /\ Cols(keptSnap) >= 3 /\ rule.threshold >= 2) =>
    /\ Current2D = OneSeed(Rows(keptSnap), Cols(keptSnap))
    /\ Stepped2D =>
         /\ Current2D = inputSnap
         /\ \A n \in 1..Len(ruleCalls) :
              ruleCalls[n].currentState = CRYSTAL_STATES.EMPTY =>
                Ones(ruleCalls[n].neighbors) <= 1

\* The default threshold on a 3 x 4 grid, several steps on: still the seed.
C26_Witness ==
  /\ Stepped2D
  /\ Rows(keptSnap) = 3 /\ Cols(keptSnap) = 4
  /\ rule.threshold = 3
  /\ generation = 5
  /\ Current2D = << <<0, 0, 0, 0>>, <<0, 0, 1, 0>>, <<0, 0, 0, 0>> >>

\* How many entries of the neighbor array given for cell (i, j) were live.
\* When a single cell of the input is live, that is how many of the 8
\* neighbor coordinates of (i, j) are the coordinate of the live cell.
LiveSeenBy(i, j) == Ones(CallFor(i, j, Cols(inputSnap)).neighbors)

\* C27: the neighbor array always has 8 entries.  On a 1x1 grid all 8 are
\* the cell itself, so a lone live cell sees 8 live neighbors; on a 2x2 grid
\* the diagonal cell appears 4 times, each orthogonal cell twice and the
\* cell itself not at all; with fewer than 3 rows or fewer than 3 columns
\* some coordinate appears twice or the cell is its own neighbor; and only
\* with rows >= 3 and cols >= 3 are the 8 coordinates pairwise distinct and
\* different from the cell.
C27_SmallGridNeighborsCoincide ==
  Stepped2D =>
    LET rows == Rows(inputSnap)
        cols == Cols(inputSnap)
    IN  /\ \A n \in 1..Len(ruleCalls) : Len(ruleCalls[n].neighbors) = 8
        /\ \A r \in 0..(rows - 1), c \in 0..(cols - 1) :
             SingleLiveAt(r, c) =>
               /\ (rows = 1 /\ cols = 1) => LiveSeenBy(0, 0) = 8
               /\ (rows = 2 /\ cols = 2) =>
                    \A i \in 0..1, j \in 0..1 :
                      LiveSeenBy(i, j) = (CASE i = r /\ j = c -> 0
                                            [] i # r /\ j # c -> 4
                                            [] OTHER -> 2)
               /\ (rows < 3 \/ cols < 3) =>
                    \/ LiveSeenBy(r, c) >= 1
                    \/ \E i \in 0..(rows - 1), j \in 0..(cols - 1) : LiveSeenBy(i, j) >= 2
               /\ (rows >= 3 /\ cols >= 3) =>
                    /\ LiveSeenBy(r, c) = 0
                    /\ \A i \in 0..(rows - 1), j \in 0..(cols - 1) : LiveSeenBy(i, j) <= 1

\* The 2x2 case: the live cell's diagonal cell sees it four times.
C27_Witness ==
  /\ Stepped2D
  /\ Rows(inputSnap) = 2 /\ Cols(inputSnap) = 2
  /\ SingleLiveAt(0, 1)
  /\ LiveSeenBy(1, 0) = 4
  /\ LiveSeenBy(0, 0) = 2 /\ LiveSeenBy(1, 1) = 2 /\ LiveSeenBy(0, 1) = 0

\* The rule functions parseBSRule returns for the texts tried.
ParsedRuleFunctions == {parseBSRule(t).rule : t \in {u \in RuleStrings : parseBSRule(u).ok}}

\* Every step of the B/S simulator's grid was made with a rule function that
\* parseBSRule returned.
SteppedWithParsedRule ==
  (called = "runSimulation" /\ inputSnap # <<>>) => rule \in ParsedRuleFunctions

\* When the effect finds that the text does not parse, the render that
\* follows has no rule function, has the error message and is not running.
ParseFailureStops ==
  (called = "ruleStringEffect" /\ ~parseBSRule(component.ruleString).ok) =>
    /\ component.ruleFunction = null
    /\ component.ruleError = <<parseBSRule(component.ruleString).error>>
    /\ ~component.isRunning

\* A firing of the interval while the stored rule function is null changes
\* neither the grid nor the generation counter.
NullRuleTickIdle ==
  (component.ruleFunction = null /\ called' = "runSimulation") =>
    /\ Deref2D(heap', grid') = Deref2D(heap, grid)
    /\ generation' = generation

\* Start/Stop while the stored rule function is null changes nothing.
NullRuleStartIdle ==
  (component.ruleFunction = null /\ called' = "handleStartStop") =>
    /\ component' = component
    /\ Deref2D(heap', grid') = Deref2D(heap, grid)
    /\ generation' = generation

\* C28: in the B/S simulator the grid is only stepped with a rule function
\* parseBSRule returned; when the text fails to parse the stored rule
\* function becomes null, the error is set and isRunning becomes false; and
\* while the stored rule function is null neither a firing of the interval
\* changes the grid or the generation counter nor Start/Stop has an effect.
C28_NullRuleNeverSteps ==
  /\ []SteppedWithParsedRule
  /\ []ParseFailureStops
  /\ [][NullRuleTickIdle /\ NullRuleStartIdle]_vars

\* The parts of C28 other than the firing of the interval.
NullRuleOtherParts ==
  /\ []SteppedWithParsedRule
  /\ []ParseFailureStops
  /\ [][NullRuleStartIdle]_vars

\* A step made while the stored rule function is null: the interval set by
\* an earlier render fired before the interval effect cleared it.
StaleTick ==
  /\ called = "runSimulation"
  /\ component.ruleFunction = null
  /\ component.effects = {"interval"}
  /\ generation > 0
  /\ Current2D # inputSnap

\* The latest call was a step of a non-empty row with Rule 184.
SteppedTraffic ==
  /\ called = "nextOneDGeneration"
  /\ Len(inputSnap) >= 1
  /\ rule = getElementaryRule(184).rule

\* C29: stepping a binary row of length >= 1 with Rule 184 makes cell i live
\* exactly when its left neighbor was live and it was dead, or it was live
\* and its right neighbor was live (neighbors taken around the ring), and
\* the row has as many live cells after every step as it had before, and as
\* any generation kept earlier in the run.
C29_TrafficConservesCars ==
  SteppedTraffic =>
    LET size == Len(inputSnap)
        left(i)  == inputSnap[((i - 1 + size) % size) + 1]
        right(i) == inputSnap[((i + 1) % size) + 1]
    IN  /\ Len(Current1D) = size
        /\ \A i \in 0..(size - 1) :
             (Current1D[i + 1] = 1) <=>
               \/ left(i) = 1 /\ inputSnap[i + 1] = 0
               \/ inputSnap[i + 1] = 1 /\ right(i) = 1
        /\ \A i \in 0..(size - 1) : Current1D[i + 1] \in BinaryStates
        /\ Ones(Current1D) = Ones(inputSnap)
        /\ kept # NULL => Ones(Current1D) = Ones(keptSnap)

\* A car at the end of the row moves round to cell 0, after a generation
\* was kept.
C29_Witness ==
  /\ SteppedTraffic
  /\ inputSnap = <<0, 0, 1>>
  /\ Current1D = <<1, 0, 0>>
  /\ kept # NULL /\ kept # row

\* Generate has seeded the history, and the seed is still its first row.
Seeded == Len(component.history) >= 1 /\ component.history[1] = initialGrid

\* A cell that is not live: false, or the number 0.
Dead(x) == x \in {jsFalse, 0}

\* The rule function in use was made from an even rule number.
EvenRule ==
  \E ruleNumber \in {n \in RuleNumbers : n % 2 = 0} :
    component.ruleFunction = getElementaryRule(ruleNumber).rule

====
